---- MODULE Spec2Model ----
(***************************************************************************)
(* Transaction propagation of sql_helper: the SessionStack, the            *)
(* TransactionHandler propagation handlers, the Database session context   *)
(* managers and the call frames of functions wrapped by @transactional.    *)
(*                                                                         *)
(* One call chain is modelled: a wrapped function may call further wrapped *)
(* functions (nesting), return, or raise.  A SYNC call leaves through the  *)
(* @contextmanager chain, which throws the exception into every generator  *)
(* of the chain.  An ASYNC call leaves through @asynccontextmanager around *)
(* `async for ...: yield`, which throws the exception only into the        *)
(* outermost generator: the inner async generators stay suspended and are  *)
(* closed later by the event loop's async-generator finalizer.             *)
(*                                                                         *)
(* Further specifications share the same operators: SpecPushPop and        *)
(* SpecStackOps run several chains on the SessionStack directly,           *)
(* SpecChains runs top-level wrapped calls of several chains, and          *)
(* SpecRetry runs one wrapped call through retry_sync / retry_async.       *)
(***************************************************************************)
EXTENDS Integers, Sequences, FiniteSets, TLC

\* Bounds of the exploration.
MaxCalls == 3
MaxDepth == 3
MaxChains == 3
MaxPushes == 3
MaxRetry == 2

\* Largest magnitude of retry_count, retry_backoff and timeout in a declaration.
MaxOpt == 2

\* Number of threads that call one TransactionManager.
MaxThreads == 2

\* Number of engines one Database creates over its life.
MaxEngines == 3

\* Number of SessionStack operations one sequential caller makes.
MaxOps == 5

\* Python None for a session, and for a session id.
None == 0
NoId == -1

PropagationType ==
    {"REQUIRED", "REQUIRES_NEW", "NESTED", "SUPPORTS", "NOT_SUPPORTED", "NEVER", "MANDATORY"}

TransactionMode == {"SYNC", "ASYNC"}

\* TransactionError members (the message a ValueError carries).
NEVER_EXISTS == "Transaction already exists (NEVER propagation)"
MANDATORY_REQUIRED == "No existing transaction (MANDATORY propagation)"

\* How a user function ends: normally, with an Exception, or with a
\* BaseException that is not an Exception (cancellation, KeyboardInterrupt).
Outcomes == {"ok", "Exception", "BaseException"}

\* The TransactionOptions (isolation_level, read_only) the calls are declared with.
OptionChoices == {<<"NONE", FALSE>>, <<"SERIALIZABLE", TRUE>>}

VARIABLES
    sessions,   \* SessionStack.sessions: the dict, as its items in insertion order
    counter,    \* SessionStack._counter
    ctx,        \* current_session_stack: TRUE when set to the stack, FALSE when unset
    db,         \* the sessions the Database opened, db[s] for session s
    frames,     \* the active wrapped calls of the chain, outermost first
    pending,    \* suspended async generator chains awaiting finalization
    last,       \* the wrapped call that finished in the step to this state, or NoCall
    ncalls,     \* number of wrapped calls started
    chains,     \* independent call chains (threads or tasks): chains[t] is where t stands
    issued,     \* the ids push / async_push returned, in the order they returned
    instance,   \* SessionStack._instance: None until the first SessionStack()
    call,       \* a wrapped call inside retry_sync / retry_async: options and loop state
    guard,      \* a wrapped call with a timeout: the clock, the alarm, the timer task
    mgr,        \* the TransactionManager: _databases, who is inside _lock, the callers
    decl,       \* a TransactionOptions being constructed by @transactional(...)
    dbase,      \* a Database: engines, session factories and initialized flags
    trace       \* what a sequential caller did so far and what each step returned

vars == <<sessions, counter, ctx, db, frames, pending, last, ncalls,
          chains, issued, instance, call, guard, mgr, decl, dbase, trace>>

\* What the steps of a single call chain without retries leave alone.
others == <<chains, issued, instance, call, guard, mgr, decl, dbase, trace>>

\* What the steps on the SessionStack and of the retry loop leave alone.
rest == <<guard, mgr, decl, dbase, trace>>

----------------------------------------------------------------------------
\* SessionStack

Ids(m) == {m[i].id : i \in 1..Len(m)}

\* self.sessions[session_id] = session
DictSet(m, k, v) ==
    IF k \in Ids(m)
    THEN [i \in 1..Len(m) |-> IF m[i].id = k THEN [id |-> k, sess |-> v] ELSE m[i]]
    ELSE Append(m, [id |-> k, sess |-> v])

\* self.sessions.pop(session_id, None): the dict afterwards
DictPop(m, k) == SelectSeq(m, LAMBDA e : e.id # k)

\* Faulty variant: an id generator that does not advance the counter.
get_next_session_id_stale(c) == [id |-> c, counter |-> c]

\* SessionStack._get_next_session_id: session_id = f"session_{self._counter}",
\* then self._counter += 1, both under _counter_lock.
get_next_session_id(c) == [id |-> c, counter |-> c + 1]

\* SessionStack._get_next_session_id, then the insertion
push(m, c, s) ==
    LET n == get_next_session_id(c) IN
    [sessions |-> DictSet(m, n.id, s), counter |-> n.counter, id |-> n.id]

pop(m, k) == DictPop(m, k)

\* What pop / async_pop returns: self.sessions.pop(session_id, None)
pop_result(m, k) ==
    IF k \in Ids(m) THEN (CHOOSE e \in {m[i] : i \in 1..Len(m)} : e.id = k).sess ELSE None

\* clear / async_clear: self.sessions.clear(); self._counter = 0
clear == [sessions |-> <<>>, counter |-> 0]

\* SessionStack.__new__: the instance the class holds, created on first use.
SessionStack_new(inst, fresh) == IF inst = None THEN fresh ELSE inst

get_current(m) == IF Len(m) = 0 THEN None ELSE m[Len(m)].sess

----------------------------------------------------------------------------
\* sync_timeout / async_timeout

\* Times are counted in tenths of a second.
Tenths == 10

\* options.timeout: None, 0.5 s, 1 s, 1.5 s.
TimeoutChoices == {<<>>, <<5>>, <<10>>, <<15>>}

\* How long the user function would run if nothing interrupted it.
DurChoices == {3, 12, 20}

\* signal.alarm(k): k = 0 cancels the alarm, otherwise SIGALRM is due k
\* seconds from now.
signal_alarm(now, k) == IF k = 0 THEN <<>> ELSE <<now + k * Tenths>>

\* sync_timeout up to its yield: nothing without a timeout; otherwise
\* signal.signal(SIGALRM, timeout_handler), which raises ValueError outside
\* the main thread, then signal.alarm(int(seconds)).
sync_timeout_enter(g) ==
    IF g.seconds = <<>> THEN [g EXCEPT !.entered = TRUE]
    ELSE IF ~g.main THEN [g EXCEPT !.result = "ValueError"]
    ELSE [g EXCEPT !.entered = TRUE, !.handler = "timeout_handler", !.starts = @ + 1,
                   !.alarm = signal_alarm(g.now, g.seconds[1] \div Tenths)]

\* The finally of sync_timeout: signal.alarm(0) and the original handler.
sync_timeout_exit(g) ==
    IF g.seconds = <<>> THEN g
    ELSE [g EXCEPT !.alarm = signal_alarm(g.now, 0), !.handler = "original"]

\* async_timeout up to its yield: nothing without a timeout; otherwise
\* asyncio.create_task(timeout()), a task that sleeps for `seconds`.
async_timeout_enter(g) ==
    IF g.seconds = <<>> THEN [g EXCEPT !.entered = TRUE]
    ELSE [g EXCEPT !.entered = TRUE, !.task = "armed", !.starts = @ + 1,
                   !.task_at = g.now + g.seconds[1]]

\* The finally of async_timeout: task.cancel(), which does nothing to a
\* task that is already done.
async_timeout_exit(g) == [g EXCEPT !.task = IF @ = "armed" THEN "cancelled" ELSE @]

\* handle_sync / handle_async without a timeout guard.
timeout_enter_skipped(g) == [g EXCEPT !.entered = TRUE]

timeout_enter(g) == IF g.mode = "SYNC" THEN sync_timeout_enter(g) ELSE async_timeout_enter(g)

timeout_exit(g) == IF g.mode = "SYNC" THEN sync_timeout_exit(g) ELSE async_timeout_exit(g)

----------------------------------------------------------------------------
\* TransactionHandler: choice of the handler and entry into it

\* The statements _configure_session executes on a new session.
configure_session(isolation_level, read_only) ==
    (IF isolation_level # "NONE"
     THEN <<"SET TRANSACTION ISOLATION LEVEL " \o isolation_level>> ELSE <<>>)
    \o (IF read_only THEN <<"SET TRANSACTION READ ONLY">> ELSE <<>>)

\* Faulty variant: a dict that serves NESTED and NOT_SUPPORTED with the
\* handlers of REQUIRED and SUPPORTS.
get_propagation_handler_complete(prop) ==
    CASE prop \in {"REQUIRED", "NESTED"}       -> "handle_required"
      [] prop = "REQUIRES_NEW"                 -> "handle_requires_new"
      [] prop \in {"SUPPORTS", "NOT_SUPPORTED"} -> "handle_supports"
      [] prop = "NEVER"                        -> "handle_never"
      [] prop = "MANDATORY"                    -> "handle_mandatory"
      [] OTHER                                 -> "KeyError"

\* The dict built by _get_propagation_handler, indexed by options.propagation.
get_propagation_handler(prop) ==
    CASE prop = "REQUIRED"     -> "handle_required"
      [] prop = "REQUIRES_NEW" -> "handle_requires_new"
      [] prop = "SUPPORTS"     -> "handle_supports"
      [] prop = "NEVER"        -> "handle_never"
      [] prop = "MANDATORY"    -> "handle_mandatory"
      [] OTHER                 -> "KeyError"

\* Number of arguments each handler accepts besides self.
HandlerArity(h) == IF h = "handle_requires_new" THEN 1 ELSE 2

\* Whether calling the handler yields an object that `with` (SYNC) or
\* `async for` (ASYNC) accepts: _handle_never is a plain generator function.
HandlerProtocol(h) == IF h = "handle_never" THEN "generator" ELSE "managed"

Reuse == [act |-> "reuse", err |-> "ok"]
CreateNew == [act |-> "create", err |-> "ok"]
ProceedWithoutSession == [act |-> "none", err |-> "ok"]
Reject(e) == [act |-> "raise", err |-> e]

\* Faulty variant: REQUIRED that opens a session even when one is current.
handle_required_always_new(existing_session) == CreateNew

handle_required(existing_session) ==
    IF existing_session # None THEN Reuse ELSE CreateNew

handle_requires_new(existing_session) == CreateNew

handle_supports(existing_session) ==
    IF existing_session # None THEN Reuse ELSE ProceedWithoutSession

handle_never(existing_session) ==
    IF existing_session # None THEN Reject(NEVER_EXISTS) ELSE ProceedWithoutSession

\* Faulty variant: MANDATORY that proceeds without a session instead of failing.
handle_mandatory_lenient(existing_session) ==
    IF existing_session = None THEN ProceedWithoutSession ELSE Reuse

handle_mandatory(existing_session) ==
    IF existing_session = None THEN Reject(MANDATORY_REQUIRED) ELSE Reuse

\* handle_sync / handle_async up to the yield:
\*   handler = self._get_propagation_handler()[self.options.propagation]
\*   with handler(existing_session, ops) as session   (async for ... in handler(...))
handle_enter(prop, existing_session) ==
    LET h == get_propagation_handler(prop) IN
    IF h = "KeyError" THEN Reject("KeyError")
    ELSE IF HandlerArity(h) # 2 THEN Reject("TypeError")
    ELSE IF HandlerProtocol(h) # "managed" THEN Reject("TypeError")
    ELSE CASE h = "handle_required"     -> handle_required(existing_session)
           [] h = "handle_requires_new" -> handle_requires_new(existing_session)
           [] h = "handle_supports"     -> handle_supports(existing_session)
           [] h = "handle_never"        -> handle_never(existing_session)
           [] h = "handle_mandatory"    -> handle_mandatory(existing_session)

----------------------------------------------------------------------------
\* Database.get_db / get_async_db: what happens after the yield

\* One invocation of commit(), rollback() or close(): by which call, and
\* whether it returned (ok) or raised.
Op(o, by, ok) == [op |-> o, by |-> by, ok |-> ok]

\* Faulty variant: get_db without the `finally`, so that close() is skipped
\* whenever the except branch re-raises.
get_db_exit_no_finally(log, by, outcome, commitRaises, rollbackRaises) ==
    IF outcome = "ok" /\ ~commitRaises
    THEN [log |-> log \o <<Op("commit", by, TRUE), Op("close", by, TRUE)>>, err |-> "ok"]
    ELSE IF outcome = "ok" \/ outcome = "Exception"
    THEN [log |-> log
                  \o (IF outcome = "ok" THEN <<Op("commit", by, FALSE)>> ELSE <<>>)
                  \o <<Op("rollback", by, ~rollbackRaises)>>,
          err |-> IF rollbackRaises THEN "SQLAlchemyError" ELSE "DatabaseError"]
    ELSE [log |-> log, err |-> outcome]

\* get_db: outcome is how the body of the `with` ended.
get_db_exit(log, by, outcome, commitRaises, rollbackRaises) ==
    IF outcome = "ok" /\ ~commitRaises
    THEN [log |-> log \o <<Op("commit", by, TRUE), Op("close", by, TRUE)>>, err |-> "ok"]
    ELSE IF outcome = "ok" \/ outcome = "Exception"
    THEN [log |-> log
                  \o (IF outcome = "ok" THEN <<Op("commit", by, FALSE)>> ELSE <<>>)
                  \o <<Op("rollback", by, ~rollbackRaises), Op("close", by, TRUE)>>,
          err |-> IF rollbackRaises THEN "SQLAlchemyError" ELSE "DatabaseError"]
    ELSE [log |-> log \o <<Op("close", by, TRUE)>>, err |-> outcome]

\* get_async_db: the same try/except inside `async with session_factory()`,
\* whose exit closes the session.
get_async_db_exit(log, by, outcome, commitRaises, rollbackRaises) ==
    IF outcome = "ok" /\ ~commitRaises
    THEN [log |-> log \o <<Op("commit", by, TRUE), Op("close", by, TRUE)>>, err |-> "ok"]
    ELSE IF outcome = "ok" \/ outcome = "Exception"
    THEN [log |-> log
                  \o (IF outcome = "ok" THEN <<Op("commit", by, FALSE)>> ELSE <<>>)
                  \o <<Op("rollback", by, ~rollbackRaises), Op("close", by, TRUE)>>,
          err |-> IF rollbackRaises THEN "SQLAlchemyError" ELSE "DatabaseError"]
    ELSE [log |-> log \o <<Op("close", by, TRUE)>>, err |-> outcome]

----------------------------------------------------------------------------
\* Call frames

Top == frames[Len(frames)]

NoCall ==
    [uid |-> 0, prop |-> "REQUIRED", mode |-> "SYNC", existing |-> None, sess |-> None,
     sid |-> NoId, owns |-> FALSE, token |-> FALSE, opened |-> 0, calls |-> 0,
     pre |-> <<>>, result |-> "none", value |-> 0]

\* The value the user function of call uid returns.
UserResult(uid) == uid

Finished(f, result, value) ==
    [uid |-> f.uid, prop |-> f.prop, mode |-> f.mode, existing |-> f.existing,
     sess |-> f.sess, sid |-> f.sid, owns |-> f.owns, token |-> f.token,
     opened |-> f.opened, calls |-> f.calls, pre |-> f.pre,
     result |-> result, value |-> value]

\* A wrapped call with options.timeout = seconds (<<>> for None, else the
\* value in tenths of a second) whose user function would run for dur
\* tenths, in the main thread or not, before it is made.
TimedCall(mode, prop, main, seconds, dur) ==
    [pc |-> "call", mode |-> mode, prop |-> prop, main |-> main,
     seconds |-> seconds, dur |-> dur, now |-> 0, entered |-> FALSE,
     handler |-> "original", alarm |-> <<>>, task |-> "none", task_at |-> 0,
     expired |-> FALSE, result |-> "none", starts |-> 0,
     sess |-> None, sid |-> NoId, owns |-> FALSE, token |-> FALSE]

\* No call with a timeout is being made.
NoGuard == [TimedCall("SYNC", "REQUIRED", TRUE, <<>>, 0) EXCEPT !.pc = "none"]

\* No call on the TransactionManager.
NoOp == [op |-> "none", name |-> "", db |-> None, override |-> FALSE]

Threads == 1..MaxThreads

\* TransactionManager.__init__: no database, nobody holds _lock, every
\* thread is outside the manager; last is the call that returned last.
NewManager == [databases |-> <<>>, inside |-> {},
               th |-> [t \in Threads |-> [pc |-> "idle", op |-> NoOp]],
               last |-> [call |-> NoOp, before |-> <<>>, ret |-> None, err |-> "ok"]]

\* A use of @transactional(...) with the three validated options; timeout is
\* <<>> for None and <<v>> for a number.
Declaration(retry_count, retry_backoff, timeout) ==
    [pc |-> "declare", retry_count |-> retry_count, retry_backoff |-> retry_backoff,
     timeout |-> timeout, err |-> "none", calls |-> 0]

\* No TransactionOptions is being constructed.
NoDecl == [Declaration(0, 1, <<>>) EXCEPT !.pc = "none"]

\* One side (sync or async) of a Database: the engine (None, or the number
\* of the engine created), the session factory bound to an engine, the flag.
Uninitialized == [engine |-> None, factory |-> None, initialized |-> FALSE]

\* Database.__init__: both engines and factories None, both flags False.
NewDatabase(enable_async) ==
    [pc |-> "made", enable_async |-> enable_async,
     sync |-> Uninitialized, async |-> Uninitialized,
     created |-> 0, disposed |-> {}, op |-> "init", side |-> "sync", err |-> "ok"]

\* No Database is being used.
NoDatabase == [NewDatabase(FALSE) EXCEPT !.pc = "none"]

\* A chain that is not inside any SessionStack operation or wrapped call.
IdleChain ==
    [pc |-> "idle", prop |-> "REQUIRED", mode |-> "SYNC", stack |-> None, uid |-> 0,
     existing |-> None, sess |-> None, id |-> NoId, got |-> None, owns |-> FALSE]

Chains == 1..MaxChains

\* No call is inside retry_sync / retry_async.
NoRetry == [pc |-> "none"]

Init ==
    /\ sessions = <<>>
    /\ counter = 0
    /\ ctx = FALSE
    /\ db = <<>>
    /\ frames = <<>>
    /\ pending = {}
    /\ last = NoCall
    /\ ncalls = 0
    /\ chains = [t \in Chains |-> IdleChain]
    /\ issued = <<>>
    /\ instance = None
    /\ call = NoRetry
    /\ guard = NoGuard
    /\ mgr = NewManager
    /\ decl = NoDecl
    /\ dbase = NoDatabase
    /\ trace = <<>>

\* A wrapped function is called: TransactionHandler.__init__, then
\* handle_sync / handle_async up to the point where the user function runs.
Call(prop, mode) ==
    /\ ncalls < MaxCalls
    /\ Len(frames) < MaxDepth
    /\ IF frames = <<>> THEN TRUE ELSE (Top.mode = "SYNC" => mode = "SYNC")
    /\ LET uid == ncalls + 1
           token == ~ctx
           existing == get_current(sessions)
           d == handle_enter(prop, existing)
           base == [uid |-> uid, prop |-> prop, mode |-> mode, existing |-> existing,
                    sess |-> None, sid |-> NoId, owns |-> FALSE, token |-> token,
                    opened |-> 0, calls |-> 0, pre |-> sessions]
       IN
       /\ ncalls' = uid
       /\ UNCHANGED others
       /\ CASE d.act = "raise" ->
                 \* the finally of handle_sync / handle_async resets the token
                 /\ last' = Finished(base, d.err, 0)
                 /\ UNCHANGED <<sessions, counter, ctx, db, frames, pending>>
            [] d.act = "none" ->
                 /\ frames' = Append(frames, [base EXCEPT !.calls = 1])
                 /\ ctx' = TRUE
                 /\ last' = NoCall
                 /\ UNCHANGED <<sessions, counter, db, pending>>
            [] d.act = "reuse" ->
                 LET p == push(sessions, counter, existing) IN
                 /\ sessions' = p.sessions
                 /\ counter' = p.counter
                 /\ frames' = Append(frames,
                        [base EXCEPT !.sess = existing, !.sid = p.id, !.calls = 1])
                 /\ ctx' = TRUE
                 /\ last' = NoCall
                 /\ UNCHANGED <<db, pending>>
            [] d.act = "create" ->
                 \E o \in OptionChoices :
                    LET s == Len(db) + 1
                        p == push(sessions, counter, s)
                    IN
                    /\ db' = Append(db, [owner |-> uid, mode |-> mode,
                                         stmts |-> configure_session(o[1], o[2]),
                                         opts |-> o,
                                         log |-> <<>>, user |-> "running"])
                    /\ sessions' = p.sessions
                    /\ counter' = p.counter
                    /\ frames' = Append(frames,
                           [base EXCEPT !.sess = s, !.sid = p.id, !.owns = TRUE,
                                        !.opened = 1, !.calls = 1])
                    /\ ctx' = TRUE
                    /\ last' = NoCall
                    /\ UNCHANGED pending

\* The user function of the innermost call ends with `outcome` and the
\* call leaves through the context managers (SYNC, or ASYNC after a normal
\* return): pop, then commit/rollback and close by the creating frame,
\* then the reset of the context variable.
Leave(outcome, commitRaises, rollbackRaises) ==
    /\ frames # <<>>
    /\ IF Top.mode = "SYNC" THEN TRUE ELSE outcome = "ok"
    /\ LET f == Top
           r == IF f.mode = "SYNC"
                THEN get_db_exit(db[f.sess].log, f.uid, outcome, commitRaises, rollbackRaises)
                ELSE get_async_db_exit(db[f.sess].log, f.uid, outcome, commitRaises, rollbackRaises)
           result == IF f.owns THEN r.err ELSE outcome
       IN
       /\ sessions' = IF f.sid # NoId THEN pop(sessions, f.sid) ELSE sessions
       /\ db' = IF f.owns
                THEN [db EXCEPT ![f.sess].log = r.log, ![f.sess].user = outcome]
                ELSE db
       /\ ctx' = IF f.token THEN FALSE ELSE ctx
       /\ frames' = SubSeq(frames, 1, Len(frames) - 1)
       /\ last' = Finished(f, result, IF result = "ok" THEN UserResult(f.uid) ELSE 0)
       /\ UNCHANGED <<counter, pending, ncalls>>
       /\ UNCHANGED others

ReturnOk == \E c, r \in BOOLEAN : Leave("ok", c, r)

RaiseSync ==
    /\ frames # <<>> /\ Top.mode = "SYNC"
    /\ \E o \in Outcomes \ {"ok"}, c, r \in BOOLEAN : Leave(o, c, r)

\* The user function of an ASYNC call raises: __aexit__ throws the exception
\* into handle_async_transaction at its `yield` inside `async for`; the loop
\* is left without resuming handler.handle_async(), so that generator and
\* the ones below it stay suspended at their yields.
RaiseAsync ==
    /\ frames # <<>> /\ Top.mode = "ASYNC"
    /\ \E o \in Outcomes \ {"ok"} :
        LET f == Top IN
        /\ pending' = pending \cup {[uid |-> f.uid, stage |-> 1, sid |-> f.sid,
                                     sess |-> f.sess, owns |-> f.owns, token |-> f.token]}
        /\ db' = IF f.owns THEN [db EXCEPT ![f.sess].user = o] ELSE db
        /\ frames' = SubSeq(frames, 1, Len(frames) - 1)
        /\ last' = Finished(f, o, 0)
        /\ UNCHANGED <<sessions, counter, ctx, ncalls>>
        /\ UNCHANGED others

\* The event loop closes one suspended async generator (aclose throws
\* GeneratorExit at its yield).  Stage 1: handle_async, which leaves its
\* `async with async_timeout(...)` (its token reset runs in another context
\* and fails); stage 2: the propagation handler, where a
\* creating frame leaves get_async_db; stage 3: _handle_session_async pops.
Finalize ==
    /\ IF frames = <<>> THEN TRUE ELSE Top.mode = "ASYNC"
    /\ \E p \in pending :
        /\ CASE p.stage = 1 ->
                  /\ pending' = (pending \ {p}) \cup {[p EXCEPT !.stage = 2]}
                  /\ UNCHANGED <<sessions, db>>
             [] p.stage = 2 ->
                  /\ db' = IF p.owns
                           THEN [db EXCEPT ![p.sess].log =
                                    get_async_db_exit(@, p.uid, "BaseException", FALSE, FALSE).log]
                           ELSE db
                  /\ pending' = IF p.sid # NoId
                                THEN (pending \ {p}) \cup {[p EXCEPT !.stage = 3]}
                                ELSE pending \ {p}
                  /\ UNCHANGED sessions
             [] p.stage = 3 ->
                  /\ sessions' = pop(sessions, p.sid)
                  /\ pending' = pending \ {p}
                  /\ UNCHANGED db
        /\ last' = NoCall
        /\ guard' = IF p.stage = 1 THEN async_timeout_exit(guard) ELSE guard
        /\ UNCHANGED <<counter, ctx, frames, ncalls>>
        /\ UNCHANGED <<chains, issued, instance, call, mgr, decl, dbase, trace>>

Next ==
    \/ \E prop \in PropagationType, mode \in TransactionMode : Call(prop, mode)
    \/ ReturnOk
    \/ RaiseSync
    \/ RaiseAsync
    \/ Finalize

Spec == Init /\ [][Next]_vars

----------------------------------------------------------------------------
\* The way out of a SYNC call, one context manager at a time

\* One context manager left by call `by`: the user function ended with
\* `outcome`, and `err` is what propagates after this step.
Step(by, name, outcome, err) == [by |-> by, name |-> name, outcome |-> outcome, err |-> err]

\* Faulty variant: get_db's commit/rollback and close before the pop.
ExitSteps_commit_first(f) ==
    IF f.owns THEN <<"terminate", "close", "pop", "reset">>
    ELSE IF f.sid # NoId THEN <<"pop", "reset">>
    ELSE <<"reset">>

\* The order in which the exits run for frame f.  A creating frame is inside
\*   with get_db() as session: with _handle_session_sync(session, ops): yield
\* so the finally of _handle_session_sync (pop) runs first, then the
\* except/else of get_db (rollback/commit), then its finally (close), then
\* the finally of handle_sync (reset of the context variable).
ExitSteps(f) ==
    IF f.owns THEN <<"pop", "terminate", "close", "reset">>
    ELSE IF f.sid # NoId THEN <<"pop", "reset">>
    ELSE <<"reset">>

\* The exit the innermost call has to run next; trace holds the steps it
\* has run already.
NextStep == ExitSteps(Top)[Len(trace) + 1]

\* How the user function ended, chosen when the first exit runs.
OutcomesNow == IF trace = <<>> THEN Outcomes ELSE {trace[1].outcome}

\* What propagates at this point of the way out.
ErrNow(o) == IF trace = <<>> THEN o ELSE trace[Len(trace)].err

exitrest == <<chains, issued, instance, call, guard, mgr, decl, dbase>>

\* A SYNC wrapped function is called while no call is on its way out.
SyncCall ==
    /\ trace = <<>>
    /\ \E prop \in PropagationType : Call(prop, "SYNC")

\* finally of _handle_session_sync: ops['pop'](session_id).
ExitPop ==
    /\ frames # <<>>
    /\ NextStep = "pop"
    /\ \E o \in OutcomesNow :
         /\ sessions' = pop(sessions, Top.sid)
         /\ trace' = Append(trace, Step(Top.uid, "pop", o, ErrNow(o)))
    /\ UNCHANGED <<counter, ctx, db, frames, pending, last, ncalls>>
    /\ UNCHANGED exitrest

\* except / else of get_db: rollback() or commit() on the session.
ExitTerminate ==
    /\ frames # <<>>
    /\ NextStep = "terminate"
    /\ \E o \in OutcomesNow, commitRaises, rollbackRaises \in BOOLEAN :
         LET f == Top
             r == get_db_exit(db[f.sess].log, f.uid, o, commitRaises, rollbackRaises)
         IN
         /\ db' = [db EXCEPT ![f.sess].log = SubSeq(r.log, 1, Len(r.log) - 1),
                             ![f.sess].user = o]
         /\ trace' = Append(trace, Step(f.uid, "terminate", o, r.err))
    /\ UNCHANGED <<sessions, counter, ctx, frames, pending, last, ncalls>>
    /\ UNCHANGED exitrest

\* finally of get_db: session.close().
ExitClose ==
    /\ frames # <<>>
    /\ NextStep = "close"
    /\ \E o \in OutcomesNow :
         /\ db' = [db EXCEPT ![Top.sess].log = Append(@, Op("close", Top.uid, TRUE))]
         /\ trace' = Append(trace, Step(Top.uid, "close", o, ErrNow(o)))
    /\ UNCHANGED <<sessions, counter, ctx, frames, pending, last, ncalls>>
    /\ UNCHANGED exitrest

\* Faulty variant: a finally that leaves the context variable as it is.
context_reset_skipped(token, c) == c

\* if self.token is not None: current_session_stack.reset(self.token), which
\* puts back the value from before the set: unset.
context_reset(token, c) == IF token THEN FALSE ELSE c

\* finally of handle_sync: the context variable is reset by the handler
\* that set it, and the call is over.
ExitReset ==
    /\ frames # <<>>
    /\ NextStep = "reset"
    /\ \E o \in OutcomesNow :
         LET f == Top
             result == ErrNow(o)
         IN
         /\ ctx' = context_reset(f.token, ctx)
         /\ frames' = SubSeq(frames, 1, Len(frames) - 1)
         /\ last' = Finished(f, result, IF result = "ok" THEN UserResult(f.uid) ELSE 0)
         /\ trace' = <<>>
    /\ UNCHANGED <<sessions, counter, db, pending, ncalls>>
    /\ UNCHANGED exitrest

NextExit ==
    \/ SyncCall
    \/ ExitPop
    \/ ExitTerminate
    \/ ExitClose
    \/ ExitReset

SpecExit == Init /\ [][NextExit]_vars

----------------------------------------------------------------------------
\* Several call chains operating on the SessionStack directly

\* The session object chain t pushes.
SessionOf(t) == t

\* Chain t is in push / async_push: it takes the next id.  The insertion
\* is a separate step, under another lock.
NextId(t) ==
    /\ chains[t].pc = "idle"
    /\ Len(issued) + Cardinality({u \in Chains : chains[u].pc = "id"}) < MaxPushes
    /\ LET n == get_next_session_id(counter) IN
       /\ counter' = n.counter
       /\ chains' = [chains EXCEPT ![t] =
              [IdleChain EXCEPT !.pc = "id", !.id = n.id, !.sess = SessionOf(t)]]
    /\ UNCHANGED <<sessions, ctx, db, frames, pending, last, ncalls, issued, instance, call>>
    /\ UNCHANGED rest

\* self.sessions[session_id] = session; return session_id
Insert(t) ==
    /\ chains[t].pc = "id"
    /\ sessions' = DictSet(sessions, chains[t].id, chains[t].sess)
    /\ issued' = Append(issued, chains[t].id)
    /\ chains' = [chains EXCEPT ![t].pc = "pushed"]
    /\ UNCHANGED <<counter, ctx, db, frames, pending, last, ncalls, instance, call>>
    /\ UNCHANGED rest

\* Chain t pops the id its push returned (pop / async_pop).
Pop(t) ==
    /\ chains[t].pc = "pushed"
    /\ sessions' = pop(sessions, chains[t].id)
    /\ chains' = [chains EXCEPT ![t].pc = "idle", ![t].got = pop_result(sessions, chains[t].id)]
    /\ UNCHANGED <<counter, ctx, db, frames, pending, last, ncalls, issued, instance, call>>
    /\ UNCHANGED rest

\* clear / async_clear, called by anyone at any time.
Clear ==
    /\ sessions' = clear.sessions
    /\ counter' = clear.counter
    /\ UNCHANGED <<ctx, db, frames, pending, last, ncalls, chains, issued, instance, call>>
    /\ UNCHANGED rest

NextPushPop == \E t \in Chains : NextId(t) \/ Insert(t) \/ Pop(t)

SpecPushPop == Init /\ [][NextPushPop]_vars

NextStackOps ==
    \/ \E t \in Chains : NextId(t) \/ Insert(t) \/ Pop(t)
    \/ Clear

SpecStackOps == Init /\ [][NextStackOps]_vars

----------------------------------------------------------------------------
\* One caller using the SessionStack sequentially

\* One step of the caller: the operation, the push it refers to (k: the
\* number of the push among the pushes so far; 0 for none), the id passed
\* or returned, the session passed, and the value returned.
Event(op, k, id, sess, ret) == [op |-> op, k |-> k, id |-> id, sess |-> sess, ret |-> ret]

Pushes(tr) == SelectSeq(tr, LAMBDA e : e.op = "push")

\* stack.push(s), whole.
SeqPush(s) ==
    /\ Len(trace) < MaxOps
    /\ LET p == push(sessions, counter, s) IN
       /\ sessions' = p.sessions
       /\ counter' = p.counter
       /\ trace' = Append(trace, Event("push", Len(Pushes(trace)) + 1, p.id, s, p.id))
    /\ UNCHANGED <<ctx, db, frames, pending, last, ncalls, chains, issued, instance,
                   call, guard, mgr, decl, dbase>>

\* stack.pop(id) with the id the k-th push returned, or (k = 0) with the id
\* no push has returned yet.
SeqPop(k) ==
    /\ Len(trace) < MaxOps
    /\ k <= Len(Pushes(trace))
    /\ LET id == IF k = 0 THEN counter ELSE Pushes(trace)[k].id IN
       /\ sessions' = pop(sessions, id)
       /\ trace' = Append(trace, Event("pop", k, id, None, pop_result(sessions, id)))
    /\ UNCHANGED <<counter, ctx, db, frames, pending, last, ncalls, chains, issued,
                   instance, call, guard, mgr, decl, dbase>>

\* stack.get_current()
SeqCurrent ==
    /\ Len(trace) < MaxOps
    /\ trace' = Append(trace, Event("current", 0, NoId, None, get_current(sessions)))
    /\ UNCHANGED <<sessions, counter, ctx, db, frames, pending, last, ncalls, chains,
                   issued, instance, call, guard, mgr, decl, dbase>>

\* stack.clear()
SeqClear ==
    /\ Len(trace) < MaxOps
    /\ sessions' = clear.sessions
    /\ counter' = clear.counter
    /\ trace' = Append(trace, Event("clear", 0, NoId, None, None))
    /\ UNCHANGED <<ctx, db, frames, pending, last, ncalls, chains, issued, instance,
                   call, guard, mgr, decl, dbase>>

NextSequential ==
    \/ \E s \in 1..2 : SeqPush(s)
    \/ \E k \in 0..MaxOps : SeqPop(k)
    \/ SeqCurrent
    \/ SeqClear

SpecSequential == Init /\ [][NextSequential]_vars

----------------------------------------------------------------------------
\* Several call chains, each running top-level wrapped calls

\* Chain t (a thread, or a task started with an unset context variable)
\* calls a wrapped function at top level: TransactionHandler.__init__ finds
\* current_session_stack unset in its context and takes SessionStack(); then
\* handle_sync / handle_async up to the point where the user function runs.
ChainCall(t, prop, mode) ==
    /\ chains[t].pc = "idle"
    /\ ncalls < MaxCalls
    /\ LET uid == ncalls + 1
           stack == SessionStack_new(instance, 1)
           existing == get_current(sessions)
           d == handle_enter(prop, existing)
           base == [IdleChain EXCEPT !.prop = prop, !.mode = mode, !.stack = stack,
                                     !.uid = uid, !.existing = existing]
       IN
       /\ ncalls' = uid
       /\ instance' = stack
       /\ CASE d.act = "raise" ->
                 /\ chains' = [chains EXCEPT ![t] = base]
                 /\ UNCHANGED <<sessions, counter, db>>
            [] d.act = "none" ->
                 /\ chains' = [chains EXCEPT ![t] = [base EXCEPT !.pc = "user"]]
                 /\ UNCHANGED <<sessions, counter, db>>
            [] d.act = "reuse" ->
                 LET p == push(sessions, counter, existing) IN
                 /\ sessions' = p.sessions
                 /\ counter' = p.counter
                 /\ chains' = [chains EXCEPT ![t] =
                        [base EXCEPT !.pc = "user", !.sess = existing, !.id = p.id]]
                 /\ UNCHANGED db
            [] d.act = "create" ->
                 LET s == Len(db) + 1
                     p == push(sessions, counter, s)
                 IN
                 /\ db' = Append(db, [owner |-> uid, chain |-> t, mode |-> mode,
                                      log |-> <<>>, user |-> "running"])
                 /\ sessions' = p.sessions
                 /\ counter' = p.counter
                 /\ chains' = [chains EXCEPT ![t] =
                        [base EXCEPT !.pc = "user", !.sess = s, !.id = p.id, !.owns = TRUE]]
    /\ UNCHANGED <<ctx, frames, pending, last, issued, call>>
    /\ UNCHANGED rest

\* The user function of chain t's call returns: pop, then commit and close
\* by the call that opened the session.
ChainReturn(t) ==
    /\ chains[t].pc = "user"
    /\ LET c == chains[t]
           r == IF c.mode = "SYNC"
                THEN get_db_exit(db[c.sess].log, c.uid, "ok", FALSE, FALSE)
                ELSE get_async_db_exit(db[c.sess].log, c.uid, "ok", FALSE, FALSE)
       IN
       /\ sessions' = IF c.id # NoId THEN pop(sessions, c.id) ELSE sessions
       /\ db' = IF c.owns THEN [db EXCEPT ![c.sess].log = r.log, ![c.sess].user = "ok"] ELSE db
       /\ chains' = [chains EXCEPT ![t].pc = "idle"]
    /\ UNCHANGED <<counter, ctx, frames, pending, last, ncalls, issued, instance, call>>
    /\ UNCHANGED rest

NextChains ==
    \/ \E t \in Chains, prop \in PropagationType, mode \in TransactionMode :
          ChainCall(t, prop, mode)
    \/ \E t \in Chains : ChainReturn(t)

SpecChains == Init /\ [][NextChains]_vars

----------------------------------------------------------------------------
\* TransactionManager

\* The names databases are registered under and the Database objects.
NameChoices == {"default", "replica"}

Databases == {1, 2}

\* self._databases[name] = database
RegSet(d, name, database) ==
    [n \in DOMAIN d \cup {name} |-> IF n = name THEN database ELSE d[n]]

\* self._databases without the entry of name
RegPop(d, name) == [n \in DOMAIN d \ {name} |-> d[n]]

\* register_database that binds the name whether or not it is taken.
register_database_overwrites(d, name, database, override) ==
    [databases |-> RegSet(d, name, database), ret |-> None, err |-> "ok"]

\* TransactionManager.register_database, the body under _lock.
register_database(d, name, database, override) ==
    IF name \in DOMAIN d /\ ~override
    THEN [databases |-> d, ret |-> None, err |-> "ValueError"]
    ELSE [databases |-> RegSet(d, name, database), ret |-> None, err |-> "ok"]

\* get_database that returns None for a missing name instead of raising.
get_database_lenient(d, name) ==
    [databases |-> d, ret |-> IF name \in DOMAIN d THEN d[name] ELSE None, err |-> "ok"]

\* TransactionManager.get_database, the body under _lock.
get_database(d, name) ==
    IF name \notin DOMAIN d
    THEN [databases |-> d, ret |-> None, err |-> "KeyError"]
    ELSE [databases |-> d, ret |-> d[name], err |-> "ok"]

\* unregister_database written with `del self._databases[name]`.
unregister_database_del(d, name) ==
    IF name \in DOMAIN d
    THEN [databases |-> RegPop(d, name), ret |-> d[name], err |-> "ok"]
    ELSE [databases |-> d, ret |-> None, err |-> "KeyError"]

\* TransactionManager.unregister_database, the body under _lock:
\* self._databases.pop(name, None), returned when it is a Database.
unregister_database(d, name) ==
    IF name \in DOMAIN d
    THEN [databases |-> RegPop(d, name), ret |-> d[name], err |-> "ok"]
    ELSE [databases |-> d, ret |-> None, err |-> "ok"]

\* TransactionManager.clear, the body under _lock.
manager_clear(d) == [databases |-> <<>>, ret |-> None, err |-> "ok"]

\* The calls a thread can make on the manager.
ManagerOps ==
    {[op |-> "register", name |-> n, db |-> x, override |-> o] :
        n \in NameChoices, x \in Databases, o \in BOOLEAN}
    \cup {[op |-> k, name |-> n, db |-> None, override |-> FALSE] :
        k \in {"get", "unregister"}, n \in NameChoices}
    \cup {[op |-> "clear", name |-> "", db |-> None, override |-> FALSE]}

\* The body of call c applied to the registry d.
Apply(d, c) ==
    CASE c.op = "register" -> register_database(d, c.name, c.db, c.override)
      [] c.op = "get" -> get_database(d, c.name)
      [] c.op = "unregister" -> unregister_database(d, c.name)
      [] OTHER -> manager_clear(d)

\* A lock that admits get_database calls together.
CanEnter_shared(m, t) ==
    \/ m.inside = {}
    \/ m.th[t].op.op = "get" /\ \A u \in m.inside : m.th[u].op.op = "get"

\* `with self._lock` on a threading.Lock: a thread enters when nobody holds
\* the lock, whatever the call is.
CanEnter(m, t) == m.inside = {}

InitManager ==
    /\ mgr = NewManager
    /\ sessions = <<>>
    /\ counter = 0
    /\ ctx = FALSE
    /\ db = <<>>
    /\ frames = <<>>
    /\ pending = {}
    /\ last = NoCall
    /\ ncalls = 0
    /\ chains = [t \in Chains |-> IdleChain]
    /\ issued = <<>>
    /\ instance = None
    /\ call = NoRetry
    /\ guard = NoGuard
    /\ decl = NoDecl
    /\ dbase = NoDatabase
    /\ trace = <<>>

\* Thread t calls the manager and reaches `with self._lock`.
Begin(t, c) ==
    /\ mgr.th[t].pc = "idle"
    /\ mgr' = [mgr EXCEPT !.th[t] = [pc |-> "waiting", op |-> c]]
    /\ UNCHANGED <<sessions, counter, ctx, db, frames, pending, last, ncalls,
                   chains, issued, instance, call, guard, decl, dbase, trace>>

\* Thread t acquires _lock.
Acquire(t) ==
    /\ mgr.th[t].pc = "waiting"
    /\ CanEnter(mgr, t)
    /\ mgr' = [mgr EXCEPT !.th[t].pc = "inside", !.inside = @ \cup {t}]
    /\ UNCHANGED <<sessions, counter, ctx, db, frames, pending, last, ncalls,
                   chains, issued, instance, call, guard, decl, dbase, trace>>

\* Thread t runs the body of its call, leaves the `with` and returns or
\* raises.
Finish(t) ==
    /\ mgr.th[t].pc = "inside"
    /\ LET c == mgr.th[t].op
           r == Apply(mgr.databases, c)
       IN
       mgr' = [mgr EXCEPT !.databases = r.databases,
                          !.inside = @ \ {t},
                          !.th[t] = [pc |-> "idle", op |-> NoOp],
                          !.last = [call |-> c, before |-> mgr.databases,
                                    ret |-> r.ret, err |-> r.err]]
    /\ UNCHANGED <<sessions, counter, ctx, db, frames, pending, last, ncalls,
                   chains, issued, instance, call, guard, decl, dbase, trace>>

NextManager ==
    \/ \E t \in Threads, c \in ManagerOps : Begin(t, c)
    \/ \E t \in Threads : Acquire(t)
    \/ \E t \in Threads : Finish(t)

SpecManager == InitManager /\ [][NextManager]_vars

----------------------------------------------------------------------------
\* retry_sync / retry_async around one wrapped call

\* An exception object: its class, the attempt in which it was created and
\* the code that created it.  A raised exception is the sequence of the
\* object followed by its __cause__ chain; <<>> stands for no exception.
Exc(cls, at, src) == [cls |-> cls, at |-> at, src |-> src]

\* isinstance(an object of class cls, base)
IsInstance(cls, base) ==
    CASE base = "BaseException" -> TRUE
      [] base = "Exception"     -> cls # "CancelledError"
      [] OTHER                  -> cls = base

\* The exceptions a user function raises: an ordinary one, the provider's
\* failure class, and one that is not an Exception.
UserRaises == {"ValueError", "SQLAlchemyError", "CancelledError"}

\* options.rollback_for, as one class: the default and two narrower ones.
RollbackForChoices == {"Exception", "ValueError", "SQLAlchemyError"}

\* How get_db / get_async_db sees the end of the body of its `with`.
OutcomeOf(cls) ==
    IF cls = "ok" THEN "ok"
    ELSE IF IsInstance(cls, "Exception") THEN "Exception" ELSE "BaseException"

\* The class of the exception the entry of handle_sync / handle_async raises.
ErrClass(err) ==
    IF err \in {NEVER_EXISTS, MANDATORY_REQUIRED} THEN "ValueError" ELSE err

\* The exception get_db / get_async_db leaves with, for the result r of
\* get_db_exit: _log_and_raise_error raises DatabaseError from the handled
\* exception (the user's, or the one commit() raised); a raising rollback()
\* replaces it; anything not caught passes through.
ExitExc(r, user, at) ==
    CASE r.err = "ok"              -> <<>>
      [] r.err = "DatabaseError"   ->
             <<Exc("DatabaseError", at, "get_db")>>
             \o (IF user # <<>> THEN user ELSE <<Exc("SQLAlchemyError", at, "commit")>>)
      [] r.err = "SQLAlchemyError" -> <<Exc("SQLAlchemyError", at, "rollback")>>
      [] OTHER                     -> user

\* Faulty variant: an except clause that catches every Exception.
Matches_every_exception(e, rollback_for) == IsInstance(e[1].cls, "Exception")

\* except options.rollback_for as e
Matches(e, rollback_for) == IsInstance(e[1].cls, rollback_for)

\* Faulty variant: handle_error that re-raises whatever it is given.
handle_error_reraises(e, retry_remaining) ==
    IF retry_remaining > 0 THEN [returns |-> TRUE, exc |-> <<>>]
    ELSE [returns |-> FALSE, exc |-> e]

\* handle_error: returns when retries remain; otherwise raises DatabaseError
\* from a SQLAlchemyError, and re-raises anything else with a bare `raise`.
handle_error(e, retry_remaining) ==
    IF retry_remaining > 0 THEN [returns |-> TRUE, exc |-> <<>>]
    ELSE IF IsInstance(e[1].cls, "SQLAlchemyError")
    THEN [returns |-> FALSE, exc |-> <<Exc("DatabaseError", e[1].at, "handle_error")>> \o e]
    ELSE [returns |-> FALSE, exc |-> e]

\* The frame of an attempt that is not inside the transaction.
NoFrame == [existing |-> None, sess |-> None, sid |-> NoId, owns |-> FALSE, token |-> FALSE]

\* sync_wrapper / async_wrapper called: the database named "default" is
\* looked up first, then the retry loop starts with
\* retry_remaining = options.retry_count
RetryCall(prop, mode, retry_count, rollback_for, outer) ==
    [pc |-> "wrapper", dbname |-> "default", before |-> <<>>, prop |-> prop, mode |-> mode, retry_count |-> retry_count,
     rollback_for |-> rollback_for, outer |-> outer,
     seconds |-> <<>>, main |-> TRUE, starts |-> 0,
     retry_remaining |-> retry_count, attempts |-> 0, waits |-> 0,
     cur |-> NoFrame, hist |-> <<>>, result |-> "none", exc |-> <<>>, value |-> 0]

\* What is recorded of a finished attempt: its frame, whether and how the
\* user function ran, the exception the retry loop saw, retry_remaining at
\* that time and whether the loop went on to the backoff.
Attempted(f, user, seen, rr, retried) ==
    [existing |-> f.existing, sess |-> f.sess, owns |-> f.owns,
     user |-> user, seen |-> seen, rr |-> rr, retried |-> retried]

\* The body of the while loop after func() ended with exception e (<<>> for
\* a normal return): return, propagate, give up through handle_error, or
\* decrement retry_remaining and go to the backoff.
Catch(c, f, user, e) ==
    LET rr == c.retry_remaining
        h == handle_error(e, rr)
    IN
    IF e = <<>>
    THEN [c EXCEPT !.pc = "done", !.result = "ok", !.value = UserResult(c.attempts),
                   !.cur = NoFrame, !.hist = Append(@, Attempted(f, user, e, rr, FALSE))]
    ELSE IF ~Matches(e, c.rollback_for)
    THEN [c EXCEPT !.pc = "done", !.result = "raise", !.exc = e,
                   !.cur = NoFrame, !.hist = Append(@, Attempted(f, user, e, rr, FALSE))]
    ELSE IF rr <= 0 /\ ~h.returns
    THEN [c EXCEPT !.pc = "done", !.result = "raise", !.exc = h.exc,
                   !.cur = NoFrame, !.hist = Append(@, Attempted(f, user, e, rr, FALSE))]
    ELSE [c EXCEPT !.pc = "sleep", !.retry_remaining = rr - 1,
                   !.cur = NoFrame, !.hist = Append(@, Attempted(f, user, e, rr, TRUE))]

\* The registries a wrapped call can find: empty, "default" registered, only
\* another name registered.
RegistryChoices ==
    {<<>>, RegSet(<<>>, "default", 1), RegSet(<<>>, "replica", 2)}

\* The db argument of @transactional: a name, or a Database object, which
\* as a dict key is equal to no name.
DatabaseObject == "<Database object>"

DbArgChoices == {"default", DatabaseObject}

\* options.timeout and whether the call is made in the main thread: no
\* timeout, one second in the main thread, one second in another thread.
DeadlineChoices == {<<<<>>, TRUE>>, <<<<10>>, TRUE>>, <<<<10>>, FALSE>>}

\* A wrapped function with retry options is called, at top level or inside
\* an enclosing call that holds a session.
InitRetry ==
    /\ \E prop \in PropagationType, mode \in TransactionMode, n \in 0..MaxRetry,
          rf \in RollbackForChoices, outer \in BOOLEAN, arg \in DbArgChoices,
          dl \in DeadlineChoices :
          /\ call = [RetryCall(prop, mode, n, rf, outer) EXCEPT
                        !.dbname = arg, !.seconds = dl[1], !.main = dl[2]]
          /\ sessions = IF outer THEN push(<<>>, 0, 1).sessions ELSE <<>>
          /\ counter = IF outer THEN push(<<>>, 0, 1).counter ELSE 0
          /\ ctx = outer
          /\ db = IF outer
                  THEN <<[owner |-> 0, mode |-> mode, stmts |-> configure_session("NONE", FALSE),
                          opts |-> <<"NONE", FALSE>>, log |-> <<>>, user |-> "running"]>>
                  ELSE <<>>
    /\ frames = <<>>
    /\ pending = {}
    /\ last = NoCall
    /\ ncalls = 0
    /\ chains = [t \in Chains |-> IdleChain]
    /\ issued = <<>>
    /\ instance = None
    /\ guard = NoGuard
    /\ \E reg \in RegistryChoices : mgr = [NewManager EXCEPT !.databases = reg]
    /\ decl = NoDecl
    /\ dbase = NoDatabase
    /\ trace = <<>>

\* sync_wrapper / async_wrapper: database = transaction_manager.get_database(db)
\* before execute is defined and handed to retry_sync / retry_async; the
\* KeyError of a missing name leaves the wrapper at once.
Wrapper ==
    /\ call.pc = "wrapper"
    /\ LET r == get_database(mgr.databases, call.dbname) IN
       /\ mgr' = [mgr EXCEPT !.databases = r.databases]
       /\ call' = IF r.err = "ok"
                  THEN [call EXCEPT !.pc = "loop", !.before = mgr.databases]
                  ELSE [call EXCEPT !.pc = "done", !.before = mgr.databases,
                                    !.result = "raise",
                                    !.exc = <<Exc(r.err, 0, "get_database")>>]
    /\ UNCHANGED <<sessions, counter, ctx, db, frames, pending, last, ncalls,
                   chains, issued, instance, guard, decl, dbase, trace>>

\* while retry_remaining >= 0: func().  execute() enters
\* handle_sync_transaction / handle_async_transaction, which enters the
\* timeout guard and then the propagation handler: a failure of the guard
\* or a rejection is caught by the loop at once, otherwise the user
\* function starts.
Attempt ==
    /\ call.pc = "loop"
    /\ IF call.retry_remaining < 0
       THEN /\ call' = [call EXCEPT !.pc = "done", !.result = "raise",
                                    !.exc = <<Exc("RuntimeError", call.attempts, "retry")>>]
            /\ UNCHANGED <<sessions, counter, ctx, db>>
       ELSE LET a == call.attempts + 1
                g == timeout_enter(TimedCall(call.mode, call.prop, call.main, call.seconds, 0))
                c == [call EXCEPT !.attempts = a, !.starts = @ + g.starts]
                existing == get_current(sessions)
                d == handle_enter(call.prop, existing)
                f == [NoFrame EXCEPT !.existing = existing, !.token = ~ctx]
            IN
            CASE ~g.entered ->
                   /\ call' = Catch(c, [NoFrame EXCEPT !.token = ~ctx], "none",
                                    <<Exc(g.result, a, "timeout")>>)
                   /\ UNCHANGED <<sessions, counter, ctx, db>>
              [] d.act = "raise" ->
                   /\ call' = Catch(c, f, "none", <<Exc(ErrClass(d.err), a, "handler")>>)
                   /\ UNCHANGED <<sessions, counter, ctx, db>>
              [] d.act = "none" ->
                   /\ call' = [c EXCEPT !.pc = "user", !.cur = f]
                   /\ ctx' = TRUE
                   /\ UNCHANGED <<sessions, counter, db>>
              [] d.act = "reuse" ->
                   LET p == push(sessions, counter, existing) IN
                   /\ sessions' = p.sessions
                   /\ counter' = p.counter
                   /\ call' = [c EXCEPT !.pc = "user",
                                        !.cur = [f EXCEPT !.sess = existing, !.sid = p.id]]
                   /\ ctx' = TRUE
                   /\ UNCHANGED db
              [] d.act = "create" ->
                   LET s == Len(db) + 1
                       p == push(sessions, counter, s)
                   IN
                   /\ db' = Append(db, [owner |-> a, mode |-> call.mode,
                                        stmts |-> configure_session("NONE", FALSE),
                                        opts |-> <<"NONE", FALSE>>,
                                        log |-> <<>>, user |-> "running"])
                   /\ sessions' = p.sessions
                   /\ counter' = p.counter
                   /\ call' = [c EXCEPT !.pc = "user",
                                        !.cur = [f EXCEPT !.sess = s, !.sid = p.id, !.owns = TRUE]]
                   /\ ctx' = TRUE
    /\ UNCHANGED <<frames, pending, last, ncalls, chains, issued, instance>>
    /\ UNCHANGED rest

\* The user function of the attempt ends (cls = "ok": returns) and the
\* attempt leaves through the context managers: in SYNC mode, and in ASYNC
\* mode after a normal return, pop, commit / rollback and close, reset of
\* the context variable; then the retry loop deals with what came out.
UserLeaves(cls, commitRaises, rollbackRaises) ==
    /\ call.pc = "user"
    /\ IF call.mode = "SYNC" THEN TRUE ELSE cls = "ok"
    /\ LET f == call.cur
           a == call.attempts
           user == IF cls = "ok" THEN <<>> ELSE <<Exc(cls, a, "user")>>
           r == IF call.mode = "SYNC"
                THEN get_db_exit(db[f.sess].log, a, OutcomeOf(cls), commitRaises, rollbackRaises)
                ELSE get_async_db_exit(db[f.sess].log, a, OutcomeOf(cls), commitRaises, rollbackRaises)
           e == IF f.owns THEN ExitExc(r, user, a) ELSE user
       IN
       /\ sessions' = IF f.sid # NoId THEN pop(sessions, f.sid) ELSE sessions
       /\ db' = IF f.owns
                THEN [db EXCEPT ![f.sess].log = r.log, ![f.sess].user = OutcomeOf(cls)]
                ELSE db
       /\ ctx' = IF f.token THEN FALSE ELSE ctx
       /\ call' = Catch(call, f, cls, e)
    /\ UNCHANGED <<counter, frames, pending, last, ncalls, chains, issued, instance>>
    /\ UNCHANGED rest

UserReturns == \E c, r \in BOOLEAN : UserLeaves("ok", c, r)

UserRaisesSync == \E cls \in UserRaises, c, r \in BOOLEAN : UserLeaves(cls, c, r)

\* The user function of an ASYNC attempt raises: only
\* handle_async_transaction sees the exception, the generators below it stay
\* suspended, and the retry loop catches the user's exception itself.
UserRaisesAsync ==
    /\ call.pc = "user" /\ call.mode = "ASYNC"
    /\ \E cls \in UserRaises :
        LET f == call.cur
            a == call.attempts
        IN
        /\ pending' = pending \cup {[uid |-> a, stage |-> 1, sid |-> f.sid,
                                     sess |-> f.sess, owns |-> f.owns, token |-> f.token]}
        /\ db' = IF f.owns THEN [db EXCEPT ![f.sess].user = OutcomeOf(cls)] ELSE db
        /\ call' = Catch(call, f, cls, <<Exc(cls, a, "user")>>)
    /\ UNCHANGED <<sessions, counter, ctx, frames, last, ncalls, chains, issued, instance>>
    /\ UNCHANGED rest

\* time.sleep(options.retry_backoff) / await asyncio.sleep(...) returns.
Backoff ==
    /\ call.pc = "sleep"
    /\ call' = [call EXCEPT !.pc = "loop", !.waits = @ + 1]
    /\ UNCHANGED <<sessions, counter, ctx, db, frames, pending, last, ncalls,
                   chains, issued, instance>>
    /\ UNCHANGED rest

NextRetry ==
    \/ Wrapper
    \/ Attempt
    \/ UserReturns
    \/ UserRaisesSync
    \/ UserRaisesAsync
    \/ Backoff
    \/ Finalize

SpecRetry == InitRetry /\ [][NextRetry]_vars

----------------------------------------------------------------------------
\* Database: lazy initialization and disposal

Sides == {"sync", "async"}

\* _initialize_sync / _initialize_async: nothing when the flag is set;
\* otherwise (async: ValueError unless config.enable_async) the engine is
\* created, the session factory is bound to it and the flag is set; any
\* exception becomes DatabaseError.  The engine is created first, and
\* sessionmaker(...) only stores its arguments.
initialize(d, side, createFails) ==
    IF d[side].initialized THEN [d EXCEPT !.err = "ok"]
    ELSE IF side = "async" /\ ~d.enable_async THEN [d EXCEPT !.err = "DatabaseError"]
    ELSE IF createFails THEN [d EXCEPT !.err = "DatabaseError"]
    ELSE [d EXCEPT ![side] = [engine |-> d.created + 1, factory |-> d.created + 1,
                              initialized |-> TRUE],
                   !.created = @ + 1, !.err = "ok"]

\* The engine / async_engine property: initializes when the engine is None.
engine_property(d, side, createFails) ==
    IF d[side].engine = None THEN initialize(d, side, createFails)
    ELSE [d EXCEPT !.err = "ok"]

\* get_db / get_async_db up to the creation of the session: initialize, then
\* call the session factory.
get_db_open(d, side, createFails) ==
    LET i == initialize(d, side, createFails) IN
    IF i.err # "ok" THEN i
    ELSE IF i[side].factory = None THEN [i EXCEPT !.err = "TypeError"]
    ELSE i

\* A dispose that resets the engine and the factory and leaves the flag.
dispose_keeps_flag(d, side, disposeFails) ==
    IF d[side].engine = None THEN [d EXCEPT !.err = "ok"]
    ELSE IF disposeFails THEN [d EXCEPT !.err = "DatabaseError"]
    ELSE [d EXCEPT ![side] = [Uninitialized EXCEPT !.initialized = d[side].initialized],
                   !.disposed = @ \cup {d[side].engine}, !.err = "ok"]

\* dispose_sync / dispose_async: when there is an engine, engine.dispose(),
\* then engine, factory and flag are reset; an exception of dispose()
\* becomes DatabaseError and nothing is reset.
dispose(d, side, disposeFails) ==
    IF d[side].engine = None THEN [d EXCEPT !.err = "ok"]
    ELSE IF disposeFails THEN [d EXCEPT !.err = "DatabaseError"]
    ELSE [d EXCEPT ![side] = Uninitialized,
                   !.disposed = @ \cup {d[side].engine}, !.err = "ok"]

InitDatabase ==
    /\ \E e \in BOOLEAN : dbase = NewDatabase(e)
    /\ sessions = <<>>
    /\ counter = 0
    /\ ctx = FALSE
    /\ db = <<>>
    /\ frames = <<>>
    /\ pending = {}
    /\ last = NoCall
    /\ ncalls = 0
    /\ chains = [t \in Chains |-> IdleChain]
    /\ issued = <<>>
    /\ instance = None
    /\ call = NoRetry
    /\ guard = NoGuard
    /\ mgr = NewManager
    /\ decl = NoDecl
    /\ trace = <<>>

\* What every step on the Database leaves alone.
nodbase == <<sessions, counter, ctx, db, frames, pending, last, ncalls,
             chains, issued, instance, call, guard, mgr, decl, trace>>

\* database.engine / database.async_engine is read.
EngineAccess(side, createFails) ==
    /\ dbase.created < MaxEngines
    /\ dbase' = [engine_property(dbase, side, createFails) EXCEPT
                    !.pc = "used", !.op = "engine", !.side = side]
    /\ UNCHANGED nodbase

\* `with database.get_db()` / `async with database.get_async_db()` is entered.
GetDb(side, createFails) ==
    /\ dbase.created < MaxEngines
    /\ dbase' = [get_db_open(dbase, side, createFails) EXCEPT
                    !.pc = "used", !.op = "get_db", !.side = side]
    /\ UNCHANGED nodbase

\* database.dispose_sync() / await database.dispose_async()
Dispose(side, disposeFails) ==
    /\ dbase' = [dispose(dbase, side, disposeFails) EXCEPT
                    !.pc = "used", !.op = "dispose", !.side = side]
    /\ UNCHANGED nodbase

NextDatabase ==
    \/ \E side \in Sides, f \in BOOLEAN : EngineAccess(side, f)
    \/ \E side \in Sides, f \in BOOLEAN : GetDb(side, f)
    \/ \E side \in Sides, f \in BOOLEAN : Dispose(side, f)

SpecDatabase == InitDatabase /\ [][NextDatabase]_vars

----------------------------------------------------------------------------
\* A SYNC wrapped call with a timeout inside another one

\* The enclosing function works for `first` tenths, calls the nested
\* function, which works for `inner` tenths, and then works for `second`
\* tenths more.  alarm and handler are the alarm and the SIGALRM handler of
\* the process; saved holds the original_handler of every guard entered.
NestedCall(outer_s, inner_s, first, inner, second) ==
    [pc |-> "call", outer_s |-> outer_s, inner_s |-> inner_s,
     first |-> first, inner |-> inner, second |-> second,
     now |-> 0, alarm |-> <<>>, handler |-> "original", saved |-> <<>>,
     result |-> "none"]

\* sync_timeout up to its yield, entered in the main thread at g.now:
\* original_handler = signal.signal(SIGALRM, timeout_handler), then
\* signal.alarm(int(seconds)), which replaces an alarm already scheduled.
guard_enter(g, seconds) ==
    IF seconds = <<>> THEN g
    ELSE [g EXCEPT !.saved = Append(@, g.handler),
                   !.handler = "timeout_handler",
                   !.alarm = signal_alarm(g.now, seconds[1] \div Tenths)]

\* The finally of sync_timeout: signal.alarm(0), then the handler saved at
\* entry is installed again.
guard_exit(g, seconds) ==
    IF seconds = <<>> THEN g
    ELSE [g EXCEPT !.alarm = signal_alarm(g.now, 0),
                   !.handler = g.saved[Len(g.saved)],
                   !.saved = SubSeq(g.saved, 1, Len(g.saved) - 1)]

\* The timeouts and the working times of the two functions.
OuterTimeouts == {<<10>>, <<20>>}

InnerTimeouts == {<<>>, <<5>>, <<10>>}

WorkChoices == {3, 25}

InitNested ==
    /\ \E o \in OuterTimeouts, i \in InnerTimeouts, a, b, c \in WorkChoices :
          guard = NestedCall(o, i, a, b, c)
    /\ sessions = <<>>
    /\ counter = 0
    /\ ctx = FALSE
    /\ db = <<>>
    /\ frames = <<>>
    /\ pending = {}
    /\ last = NoCall
    /\ ncalls = 0
    /\ chains = [t \in Chains |-> IdleChain]
    /\ issued = <<>>
    /\ instance = None
    /\ call = NoRetry
    /\ mgr = NewManager
    /\ decl = NoDecl
    /\ dbase = NoDatabase
    /\ trace = <<>>

\* What every step of the two nested calls leaves alone.
noguard == <<sessions, counter, ctx, db, frames, pending, last, ncalls,
             chains, issued, instance, call, mgr, decl, dbase, trace>>

\* No alarm is due before time t.
Quiet(t) == IF guard.alarm = <<>> THEN TRUE ELSE guard.alarm[1] >= t

\* The enclosing call enters its guard and its function starts.
OuterEnter ==
    /\ guard.pc = "call"
    /\ guard' = [guard_enter(guard, guard.outer_s) EXCEPT !.pc = "first"]
    /\ UNCHANGED noguard

\* The enclosing function calls the nested one, which enters its guard.
NestedEnter ==
    /\ guard.pc = "first"
    /\ Quiet(guard.now + guard.first)
    /\ guard' = [guard_enter([guard EXCEPT !.now = @ + guard.first], guard.inner_s)
                    EXCEPT !.pc = "inner"]
    /\ UNCHANGED noguard

\* The nested function returns and its guard is left.
NestedReturn ==
    /\ guard.pc = "inner"
    /\ Quiet(guard.now + guard.inner)
    /\ guard' = [guard_exit([guard EXCEPT !.now = @ + guard.inner], guard.inner_s)
                    EXCEPT !.pc = "second"]
    /\ UNCHANGED noguard

\* The enclosing function returns and its guard is left.
OuterReturn ==
    /\ guard.pc = "second"
    /\ Quiet(guard.now + guard.second)
    /\ guard' = [guard_exit([guard EXCEPT !.now = @ + guard.second], guard.outer_s)
                    EXCEPT !.pc = "done", !.result = "ok"]
    /\ UNCHANGED noguard

\* SIGALRM arrives while one of the functions works: timeout_handler raises
\* TimeoutError, which leaves every guard that is open.
NestedAlarm ==
    /\ guard.pc \in {"first", "inner", "second"}
    /\ guard.handler = "timeout_handler"
    /\ ~Quiet(guard.now + guard[guard.pc])
    /\ LET g == [guard EXCEPT !.now = guard.alarm[1], !.alarm = <<>>]
           h == IF guard.pc = "inner" THEN guard_exit(g, guard.inner_s) ELSE g
       IN
       guard' = [guard_exit(h, guard.outer_s) EXCEPT !.pc = "done", !.result = "TimeoutError"]
    /\ UNCHANGED noguard

NextNested ==
    \/ OuterEnter
    \/ NestedEnter
    \/ NestedReturn
    \/ OuterReturn
    \/ NestedAlarm

SpecNested == InitNested /\ [][NextNested]_vars

----------------------------------------------------------------------------
\* TransactionOptions and the declaration of a wrapper

\* __post_init__ with `retry_backoff < 0` in place of `<= 0`.
post_init_backoff_zero(o) ==
    IF o.retry_count < 0 THEN "retry_count must be non-negative"
    ELSE IF o.retry_backoff < 0 THEN "retry_backoff must be positive"
    ELSE IF o.timeout # <<>> /\ o.timeout[1] <= 0 THEN "timeout must be positive"
    ELSE "ok"

\* TransactionOptions.__post_init__: the message of the ValueError it raises,
\* or "ok".
post_init(o) ==
    IF o.retry_count < 0 THEN "retry_count must be non-negative"
    ELSE IF o.retry_backoff <= 0 THEN "retry_backoff must be positive"
    ELSE IF o.timeout # <<>> /\ o.timeout[1] <= 0 THEN "timeout must be positive"
    ELSE "ok"

OptRange == (0 - MaxOpt)..MaxOpt

InitOptions ==
    /\ \E rc \in OptRange, rb \in OptRange, t \in {<<>>} \cup {<<v>> : v \in OptRange} :
          decl = Declaration(rc, rb, t)
    /\ sessions = <<>>
    /\ counter = 0
    /\ ctx = FALSE
    /\ db = <<>>
    /\ frames = <<>>
    /\ pending = {}
    /\ last = NoCall
    /\ ncalls = 0
    /\ chains = [t \in Chains |-> IdleChain]
    /\ issued = <<>>
    /\ instance = None
    /\ call = NoRetry
    /\ guard = NoGuard
    /\ mgr = NewManager
    /\ dbase = NoDatabase
    /\ trace = <<>>

\* transactional(...): options = TransactionOptions(...) is evaluated when
\* the decorator expression is; a ValueError ends the declaration and no
\* wrapper exists.
Declare ==
    /\ decl.pc = "declare"
    /\ LET e == post_init(decl) IN
       decl' = [decl EXCEPT !.pc = IF e = "ok" THEN "declared" ELSE "failed", !.err = e]
    /\ UNCHANGED <<sessions, counter, ctx, db, frames, pending, last, ncalls,
                   chains, issued, instance, call, guard, mgr, dbase, trace>>

\* A call of the wrapper that the declaration produced; it runs with the
\* options of the declaration.
Invoke ==
    /\ decl.pc = "declared"
    /\ decl.calls < MaxCalls
    /\ decl' = [decl EXCEPT !.calls = @ + 1]
    /\ UNCHANGED <<sessions, counter, ctx, db, frames, pending, last, ncalls,
                   chains, issued, instance, call, guard, mgr, dbase, trace>>

NextOptions ==
    \/ Declare
    \/ Invoke

SpecOptions == InitOptions /\ [][NextOptions]_vars

----------------------------------------------------------------------------
\* One top-level wrapped call with a timeout

InitTimeout ==
    /\ \E mode \in TransactionMode, prop \in {"REQUIRED", "SUPPORTS"}, main \in BOOLEAN,
          seconds \in TimeoutChoices, dur \in DurChoices :
          guard = TimedCall(mode, prop, main, seconds, dur)
    /\ sessions = <<>>
    /\ counter = 0
    /\ ctx = FALSE
    /\ db = <<>>
    /\ frames = <<>>
    /\ pending = {}
    /\ last = NoCall
    /\ ncalls = 0
    /\ chains = [t \in Chains |-> IdleChain]
    /\ issued = <<>>
    /\ instance = None
    /\ call = NoRetry
    /\ mgr = NewManager
    /\ decl = NoDecl
    /\ dbase = NoDatabase
    /\ trace = <<>>

\* handle_sync / handle_async: the timeout guard is entered, then the
\* propagation handler, and the user function starts.
TimedEnter ==
    /\ guard.pc = "call"
    /\ LET g == timeout_enter(guard)
           existing == get_current(sessions)
           d == handle_enter(guard.prop, existing)
       IN
       IF ~g.entered
       THEN /\ guard' = [g EXCEPT !.pc = "done"]
            /\ UNCHANGED <<sessions, counter, ctx, db>>
       ELSE CASE d.act = "raise" ->
                   /\ guard' = [timeout_exit(g) EXCEPT !.pc = "done", !.result = d.err]
                   /\ UNCHANGED <<sessions, counter, ctx, db>>
              [] d.act = "none" ->
                   /\ guard' = [g EXCEPT !.pc = "user", !.token = ~ctx]
                   /\ ctx' = TRUE
                   /\ UNCHANGED <<sessions, counter, db>>
              [] d.act = "reuse" ->
                   LET p == push(sessions, counter, existing) IN
                   /\ sessions' = p.sessions
                   /\ counter' = p.counter
                   /\ guard' = [g EXCEPT !.pc = "user", !.token = ~ctx,
                                         !.sess = existing, !.sid = p.id]
                   /\ ctx' = TRUE
                   /\ UNCHANGED db
              [] d.act = "create" ->
                   LET s == Len(db) + 1
                       p == push(sessions, counter, s)
                   IN
                   /\ db' = Append(db, [owner |-> 1, mode |-> guard.mode,
                                        stmts |-> configure_session("NONE", FALSE),
                                        opts |-> <<"NONE", FALSE>>,
                                        log |-> <<>>, user |-> "running"])
                   /\ sessions' = p.sessions
                   /\ counter' = p.counter
                   /\ guard' = [g EXCEPT !.pc = "user", !.token = ~ctx,
                                         !.sess = s, !.sid = p.id, !.owns = TRUE]
                   /\ ctx' = TRUE
    /\ UNCHANGED <<frames, pending, last, ncalls, chains, issued, instance, call, mgr, decl, dbase, trace>>

\* The body of the `with` of a SYNC call, or of an ASYNC call that returns,
\* ends at time `at` with exception class cls ("ok": the user function
\* returned): pop, commit / rollback and close, exit of the timeout guard,
\* reset of the context variable.
TimedLeave(at, cls, expired, commitRaises, rollbackRaises) ==
    LET g == guard
        r == IF g.mode = "SYNC"
             THEN get_db_exit(db[g.sess].log, 1, OutcomeOf(cls), commitRaises, rollbackRaises)
             ELSE get_async_db_exit(db[g.sess].log, 1, OutcomeOf(cls), commitRaises, rollbackRaises)
    IN
    /\ sessions' = IF g.sid # NoId THEN pop(sessions, g.sid) ELSE sessions
    /\ db' = IF g.owns
             THEN [db EXCEPT ![g.sess].log = r.log, ![g.sess].user = OutcomeOf(cls)]
             ELSE db
    /\ ctx' = IF g.token THEN FALSE ELSE ctx
    /\ guard' = [timeout_exit([g EXCEPT !.now = at]) EXCEPT
                    !.pc = "done", !.expired = expired,
                    !.result = IF g.owns THEN r.err ELSE cls]
    /\ UNCHANGED <<counter, frames, pending, last, ncalls, chains, issued, instance,
                   call, mgr, decl, dbase, trace>>

\* SIGALRM is delivered while the user function of a SYNC call runs:
\* timeout_handler raises TimeoutError in the main thread.
AlarmFires ==
    /\ guard.pc = "user"
    /\ guard.alarm # <<>> /\ guard.alarm[1] < guard.dur
    /\ guard.handler = "timeout_handler"
    /\ \E r \in BOOLEAN : TimedLeave(guard.alarm[1], "TimeoutError", TRUE, FALSE, r)

\* The timer task of async_timeout wakes up from its sleep and raises
\* TimeoutError, which ends that task and nothing else.
TaskExpires ==
    /\ guard.task = "armed"
    /\ guard.pc = "user" => guard.task_at < guard.dur
    /\ guard' = [guard EXCEPT !.task = "failed",
                              !.now = IF @ < guard.task_at THEN guard.task_at ELSE @,
                              !.expired = @ \/ guard.pc = "user"]
    /\ UNCHANGED <<sessions, counter, ctx, db, frames, pending, last, ncalls,
                   chains, issued, instance, call, mgr, decl, dbase, trace>>

\* The user function runs to its end and returns.
TimedReturn ==
    /\ guard.pc = "user"
    /\ guard.alarm # <<>> => guard.alarm[1] >= guard.dur
    /\ guard.task = "armed" => guard.task_at >= guard.dur
    /\ \E c, r \in BOOLEAN : TimedLeave(guard.dur, "ok", guard.expired, c, r)

\* The user function of a SYNC call raises an exception of its own.
TimedRaiseSync ==
    /\ guard.pc = "user" /\ guard.mode = "SYNC"
    /\ \E r \in BOOLEAN : TimedLeave(guard.now, "ValueError", guard.expired, FALSE, r)

\* The user function of an ASYNC call raises an exception of its own:
\* handle_async stays suspended inside `async with async_timeout(...)`.
TimedRaiseAsync ==
    /\ guard.pc = "user" /\ guard.mode = "ASYNC"
    /\ pending' = pending \cup {[uid |-> 1, stage |-> 1, sid |-> guard.sid,
                                 sess |-> guard.sess, owns |-> guard.owns,
                                 token |-> guard.token]}
    /\ db' = IF guard.owns THEN [db EXCEPT ![guard.sess].user = "Exception"] ELSE db
    /\ guard' = [guard EXCEPT !.pc = "done", !.result = "ValueError"]
    /\ UNCHANGED <<sessions, counter, ctx, frames, last, ncalls, chains, issued, instance,
                   call, mgr, decl, dbase, trace>>

NextTimeout ==
    \/ TimedEnter
    \/ AlarmFires
    \/ TaskExpires
    \/ TimedReturn
    \/ TimedRaiseSync
    \/ TimedRaiseAsync
    \/ Finalize

SpecTimeout == InitTimeout /\ [][NextTimeout]_vars

----------------------------------------------------------------------------
\* Vocabulary of the properties

Names(log) == [i \in 1..Len(log) |-> log[i].op]

Count(log, o) == Cardinality({i \in 1..Len(log) : log[i].op = o})

\* The sessions call uid opened through get_db / get_async_db.
Owned(uid) == {s \in 1..Len(db) : db[s].owner = uid}

OnStack(id, s) == \E i \in 1..Len(sessions) : sessions[i] = [id |-> id, sess |-> s]

\* The call that opened s has returned and none of its generators is
\* still suspended.
Settled(s) ==
    /\ db[s].user # "running"
    /\ \A p \in pending : p.uid # db[s].owner

LiveFrames == {frames[i] : i \in 1..Len(frames)}

Returned(prop) == last.uid # 0 /\ last.prop = prop

\* f (a live frame, or the call that just finished) reuses the session
\* that was current when it was called.
Reuses(f) ==
    /\ f.calls = 1
    /\ f.sess = f.existing
    /\ f.sid # NoId /\ f.sid \notin Ids(f.pre)
    /\ ~f.owns /\ Owned(f.uid) = {}

\* f opened exactly one session, configured it and pushed it.
Creates(f) ==
    /\ f.calls = 1
    /\ f.owns /\ Owned(f.uid) = {f.sess}
    /\ f.sess # None /\ f.sess # f.existing
    /\ \A i \in 1..Len(f.pre) : f.pre[i].sess # f.sess
    /\ db[f.sess].stmts = configure_session(db[f.sess].opts[1], db[f.sess].opts[2])
    /\ f.sid # NoId /\ f.sid \notin Ids(f.pre)

\* f runs its user function without a session.
WithoutSession(f) ==
    /\ f.calls = 1
    /\ f.sess = None /\ f.sid = NoId
    /\ ~f.owns /\ Owned(f.uid) = {}

----------------------------------------------------------------------------
\* C1: a REQUIRED call (SYNC or ASYNC) is never rejected; when get_current()
\* returned a session it pushes that same session under a new id, runs the
\* user function with it and opens nothing; when the stack was empty it opens
\* exactly one session, configures and pushes it and runs the user function
\* with it.  While the call is active its entry is on the stack.
C1_Required ==
    /\ \A f \in LiveFrames : f.prop = "REQUIRED" =>
          /\ IF f.existing # None THEN Reuses(f) ELSE Creates(f)
          /\ OnStack(f.sid, f.sess)
    /\ Returned("REQUIRED") =>
          IF last.existing # None THEN Reuses(last) ELSE Creates(last)

\* Both cases at once: a creating REQUIRED call with a reusing ASYNC
\* REQUIRED call inside it.
C1_Witness ==
    /\ Len(frames) >= 2
    /\ frames[1].prop = "REQUIRED" /\ frames[1].existing = None /\ frames[1].owns
    /\ frames[2].prop = "REQUIRED" /\ frames[2].mode = "ASYNC"
    /\ frames[2].existing = frames[1].sess /\ frames[2].sess = frames[1].sess

\* C2: a REQUIRES_NEW call always opens exactly one new session, pushes it and
\* runs the user function with it; a pre-existing entry is untouched and is
\* current again once the call has returned.
C2_RequiresNew ==
    /\ \A f \in LiveFrames : f.prop = "REQUIRES_NEW" => Creates(f) /\ OnStack(f.sid, f.sess)
    /\ Returned("REQUIRES_NEW") =>
          /\ Creates(last)
          /\ last.existing # None =>
                /\ get_current(sessions) = last.existing
                /\ sessions = last.pre
                /\ \A i \in 1..Len(db[last.existing].log) :
                      db[last.existing].log[i].by # last.uid

\* C3: a SUPPORTS call reuses the current session (new id, popped on exit) or,
\* on an empty stack, runs the user function once without a session; it
\* opens, commits and rolls back nothing.
C3_Supports ==
    /\ \A f \in LiveFrames : f.prop = "SUPPORTS" =>
          IF f.existing # None THEN Reuses(f) /\ OnStack(f.sid, f.sess)
          ELSE WithoutSession(f)
    /\ Returned("SUPPORTS") =>
          /\ IF last.existing # None
             THEN Reuses(last) /\ last.sid \notin Ids(sessions)
             ELSE WithoutSession(last)
          /\ \A s \in 1..Len(db) : \A i \in 1..Len(db[s].log) : db[s].log[i].by # last.uid

\* C4: a NEVER call on an empty stack runs the user function exactly once
\* without a session and returns its result.
C4_NeverEmpty ==
    /\ \A f \in LiveFrames : (f.prop = "NEVER" /\ f.existing = None) => WithoutSession(f)
    /\ (Returned("NEVER") /\ last.existing = None) =>
          /\ WithoutSession(last)
          /\ last.result \in Outcomes
          /\ last.result = "ok" => last.value = UserResult(last.uid)

\* C5: a NEVER call with a session on the stack fails with NEVER_EXISTS before
\* the user function runs, and the existing session stays on the stack with
\* nothing invoked on it.
C5_NeverExisting ==
    /\ \A f \in LiveFrames : ~(f.prop = "NEVER" /\ f.existing # None)
    /\ (Returned("NEVER") /\ last.existing # None) =>
          /\ last.result = NEVER_EXISTS
          /\ last.calls = 0
          /\ Owned(last.uid) = {}
          /\ sessions = last.pre
          /\ \A s \in 1..Len(db) : \A i \in 1..Len(db[s].log) : db[s].log[i].by # last.uid

\* C6: a MANDATORY call on an empty stack fails with MANDATORY_REQUIRED before
\* the user function runs (0 invocations), opening and pushing nothing; with a
\* session on the stack it reuses that session.
C6_Mandatory ==
    /\ \A f \in LiveFrames : f.prop = "MANDATORY" =>
          f.existing # None /\ Reuses(f) /\ OnStack(f.sid, f.sess)
    /\ Returned("MANDATORY") =>
          IF last.existing = None
          THEN /\ last.result = MANDATORY_REQUIRED
               /\ last.calls = 0
               /\ last.sess = None /\ last.sid = NoId
               /\ Owned(last.uid) = {}
               /\ sessions = last.pre
          ELSE Reuses(last)

\* A MANDATORY call was just rejected on an empty stack, in ASYNC mode.
C6_Witness ==
    /\ Returned("MANDATORY") /\ last.existing = None /\ last.mode = "ASYNC"
    /\ last.result = MANDATORY_REQUIRED

\* C7 (as stated): when the call that opened a session has its user function
\* return normally, the session sees exactly commit() then close(), and no
\* rollback(), in SYNC and in ASYNC mode.
C7_CommitOnceAsStated ==
    \A s \in 1..Len(db) : db[s].user = "ok" => Names(db[s].log) = <<"commit", "close">>

\* C7 (amended): when the call that opened a session has its user function
\* return normally, commit() is invoked exactly once, first, and close()
\* exactly once, last, all by that call; rollback() is not invoked if commit()
\* returns, and is invoked exactly once between the two if commit() raises.
C7_CommitOnce ==
    \A s \in 1..Len(db) : db[s].user = "ok" =>
        /\ \A i \in 1..Len(db[s].log) : db[s].log[i].by = db[s].owner
        /\ IF db[s].log[1].ok
           THEN Names(db[s].log) = <<"commit", "close">>
           ELSE Names(db[s].log) = <<"commit", "rollback", "close">>

\* A SYNC and an ASYNC session whose user function returned and whose
\* commit() returned.
C7_Witness ==
    \E s, t \in 1..Len(db) :
        /\ db[s].mode = "SYNC" /\ db[s].user = "ok" /\ db[s].log[1].ok
        /\ db[t].mode = "ASYNC" /\ db[t].user = "ok" /\ db[t].log[1].ok

\* C8: in SYNC mode, when the user function of the call that opened a session
\* raises an exception, the session sees exactly rollback() then close(),
\* by that call, and no commit().
C8_SyncRollback ==
    \A s \in 1..Len(db) : (db[s].mode = "SYNC" /\ db[s].user = "Exception") =>
        /\ Names(db[s].log) = <<"rollback", "close">>
        /\ \A i \in 1..Len(db[s].log) : db[s].log[i].by = db[s].owner

C8_Witness ==
    \E s \in 1..Len(db) :
        /\ db[s].mode = "SYNC" /\ db[s].user = "Exception"
        /\ last.uid = db[s].owner /\ last.result = "DatabaseError"

\* C9: in ASYNC mode, when the user function of the call that opened a session
\* raises an exception, then once the call is over and nothing of it is left
\* suspended the session has seen rollback() exactly once, close() exactly
\* once and no commit().
C9_AsyncRollback ==
    \A s \in 1..Len(db) :
        (db[s].mode = "ASYNC" /\ db[s].user = "Exception" /\ Settled(s)) =>
            /\ Count(db[s].log, "rollback") = 1
            /\ Count(db[s].log, "close") = 1
            /\ Count(db[s].log, "commit") = 0

\* C10: commit(), rollback() and close() are invoked on a session only by the
\* call that opened it, never by a call reusing it, and only after every
\* call using the session has returned; once the opening call is over (user
\* function returned or raised an exception) the session has been committed
\* or rolled back, each at most once.
C10_ReuseLeavesSession ==
    \A s \in 1..Len(db) :
        /\ \A i \in 1..Len(db[s].log) : db[s].log[i].by = db[s].owner
        /\ (Count(db[s].log, "commit") + Count(db[s].log, "rollback") > 0) =>
              \A f \in LiveFrames : f.sess # s
        /\ (db[s].user \in {"ok", "Exception"} /\ Settled(s)) =>
              /\ Count(db[s].log, "commit") <= 1
              /\ Count(db[s].log, "rollback") <= 1
              /\ Count(db[s].log, "commit") + Count(db[s].log, "rollback") >= 1

\* C11: when a wrapped call whose user function was entered returns to its
\* caller, with a result or with any exception, the entry it pushed is gone:
\* the stack holds exactly the entries it held when the call began, and it
\* is empty after a top-level call returned (SYNC and ASYNC).
C11_StackRestored ==
    (last.uid # 0 /\ last.calls = 1) =>
        /\ sessions = last.pre
        /\ frames = <<>> => sessions = <<>>

\* C12: with independent call chains active at the same time, get_current()
\* in a top-level call of one chain never returns a session another chain
\* pushed: a top-level REQUIRED call opens its own session and a top-level
\* MANDATORY call is rejected, whatever the other chains hold.
C12_ChainsIsolated ==
    \A t \in Chains : chains[t].uid # 0 =>
        /\ chains[t].existing # None => db[chains[t].existing].chain = t
        /\ (chains[t].pc = "user" /\ chains[t].prop = "REQUIRED") =>
              chains[t].owns /\ db[chains[t].sess].chain = t
        /\ chains[t].prop = "MANDATORY" => chains[t].pc = "idle"

\* C13: chains that push concurrently and later pop the id their own push
\* returned each get back exactly the session they pushed, in every
\* interleaving and every order of the pops; the map holds exactly the
\* entries pushed and not yet popped, so it is empty after the last pop.
C13_PushPop ==
    /\ \A t \in Chains :
          (chains[t].pc = "idle" /\ chains[t].id # NoId) => chains[t].got = chains[t].sess
    /\ \A t \in Chains : chains[t].pc = "pushed" => OnStack(chains[t].id, chains[t].sess)
    /\ Len(sessions) = Cardinality({t \in Chains : chains[t].pc = "pushed"})
    /\ (\A t \in Chains : chains[t].pc # "pushed") => sessions = <<>>

\* Two chains have pushed, the later chain first, and each has popped its
\* own id and got its own session back; the map is empty.
C13_Witness ==
    /\ \E t, u \in Chains :
          /\ t < u /\ chains[t].id > chains[u].id /\ chains[u].id # NoId
          /\ chains[t].pc = "idle" /\ chains[t].got = SessionOf(t)
          /\ chains[u].pc = "idle" /\ chains[u].got = SessionOf(u)
    /\ sessions = <<>>

\* C14: over any sequence of push, async_push, pop, async_pop and clear on
\* one SessionStack, no two pushes return the same id.
C14_IdsNeverReused ==
    \A i, j \in 1..Len(issued) : i # j => issued[i] # issued[j]

\* The attempts of the retried call that have ended.
Attempts == 1..Len(call.hist)

\* Attempt i ended with an exception the except clause of the loop matches.
Classified(i) ==
    call.hist[i].seen # <<>> /\ IsInstance(call.hist[i].seen[1].cls, call.rollback_for)

\* C15: with retry_count = N the operation is invoked at most N+1 times; after
\* k <= N classified failures followed by a success the call returns the
\* result after exactly k+1 invocations, each attempt of a REQUIRED call on
\* an empty stack opening a session once; if every invocation fails with a
\* classified failure, the failure is surfaced after exactly N+1 invocations.
C15_RetryCount ==
    /\ call.attempts <= call.retry_count + 1
    /\ (call.pc = "done" /\ call.result = "ok") =>
          /\ call.attempts = call.waits + 1
          /\ call.waits <= call.retry_count
          /\ \A i \in Attempts : i < call.attempts => Classified(i)
          /\ call.value = UserResult(call.attempts)
    /\ (call.pc = "done" /\ call.result = "raise" /\ \A i \in Attempts : Classified(i)) =>
          call.attempts = call.retry_count + 1
    /\ (call.prop = "REQUIRED" /\ ~call.outer) =>
          \A i \in Attempts : Cardinality(Owned(i)) = 1

\* C16: if the user function raises an exception whose class is listed in
\* rollback_for while attempts remain, the call is retried, for every
\* propagation outcome, SYNC creating calls and narrow rollback_for included.
C16_MatchedUserErrorRetried ==
    \A i \in Attempts :
        (/\ call.hist[i].user \in UserRaises
         /\ IsInstance(call.hist[i].user, call.rollback_for)
         /\ call.hist[i].rr > 0)
        => /\ call.hist[i].retried
           /\ call.attempts > i \/ call.pc = "sleep"

\* C17: an attempt that fails with an exception rollback_for does not match
\* is the last one: no backoff wait follows and that same exception reaches
\* the caller, whatever retry_count is.
C17_UnmatchedPropagates ==
    \A i \in Attempts :
        (call.hist[i].seen # <<>> /\ ~Classified(i)) =>
            /\ i = call.attempts
            /\ ~call.hist[i].retried
            /\ call.waits = i - 1
            /\ call.pc = "done" /\ call.result = "raise"
            /\ call.exc = call.hist[i].seen

\* The first attempt of a call with retries left failed with an exception
\* that rollback_for does not match, and the caller has it.
C17_Witness ==
    /\ call.pc = "done" /\ call.result = "raise"
    /\ call.retry_count = MaxRetry /\ call.attempts = 1 /\ call.waits = 0
    /\ call.rollback_for = "ValueError" /\ call.exc[1].cls = "SQLAlchemyError"

\* C18: a propagation violation (MANDATORY on an empty stack, NEVER with a
\* session on the stack) reaches the caller after exactly one attempt and
\* without any backoff wait, for every retry_count and rollback_for.
C18_ViolationNotRetried ==
    \A i \in Attempts :
        (\/ call.prop = "MANDATORY" /\ call.hist[i].existing = None
         \/ call.prop = "NEVER" /\ call.hist[i].existing # None)
        => /\ i = 1 /\ call.attempts = 1 /\ call.waits = 0
           /\ ~call.hist[i].retried
           /\ call.pc = "done" /\ call.result = "raise"

\* C19: when the attempts are exhausted, a last failure that is a
\* SQLAlchemyError is surfaced as a DatabaseError chained from it, and any
\* other last failure is re-raised as the very same object; handle_error
\* never returns when retry_remaining <= 0.
C19_Exhausted ==
    /\ \A i \in Attempts :
          (Classified(i) /\ call.hist[i].rr <= 0) =>
              /\ i = call.attempts /\ ~call.hist[i].retried
              /\ call.pc = "done" /\ call.result = "raise"
              /\ call.exc =
                    IF IsInstance(call.hist[i].seen[1].cls, "SQLAlchemyError")
                    THEN <<Exc("DatabaseError", i, "handle_error")>> \o call.hist[i].seen
                    ELSE call.hist[i].seen
    /\ call.retry_remaining >= 0
    /\ call.result = "raise" => call.exc[1].cls # "RuntimeError"

\* Every attempt up to the last retry failed with a SQLAlchemyError of the
\* user function, and the caller got a DatabaseError chained from the last.
C19_Witness ==
    /\ call.pc = "done" /\ call.result = "raise"
    /\ call.retry_count = MaxRetry /\ call.attempts = MaxRetry + 1
    /\ call.exc[1] = Exc("DatabaseError", call.attempts, "handle_error")
    /\ call.exc[2] = Exc("SQLAlchemyError", call.attempts, "user")

\* C20: every attempt decides anew from the stack, and no attempt gives the
\* user function a session an earlier attempt of the same call created: the
\* session of an attempt is the enclosing call's or one it opened itself
\* (SYNC and ASYNC).
C20_FreshSession ==
    /\ \A i \in Attempts :
          call.hist[i].sess # None => db[call.hist[i].sess].owner \in {0, i}
    /\ (call.pc = "user" /\ call.cur.sess # None) =>
          /\ db[call.cur.sess].owner \in {0, call.attempts}
          /\ Count(db[call.cur.sess].log, "rollback") = 0
          /\ Count(db[call.cur.sess].log, "close") = 0

\* C21: when a timeout is configured and the operation would run longer, the
\* operation is interrupted at expiry and the caller gets TimeoutError
\* instead of the operation running to completion (SYNC and ASYNC).
C21_TimeoutInterrupts ==
    (/\ guard.pc = "done" /\ guard.result # "ValueError"
     /\ guard.seconds # <<>> /\ guard.dur > guard.seconds[1])
    => /\ guard.result = "TimeoutError"
       /\ guard.now = guard.seconds[1]

\* C22: after a timeout has expired during a call that created its own
\* session, the session is rolled back and closed (never committed), the
\* call's stack entry is popped, and the stack is empty once the call has
\* returned.
C22_CleanupAfterTimeout ==
    (guard.pc = "done" /\ guard.expired /\ guard.owns)
    => /\ Count(db[guard.sess].log, "rollback") = 1
       /\ Count(db[guard.sess].log, "commit") = 0
       /\ Count(db[guard.sess].log, "close") = 1
       /\ guard.sid \notin Ids(sessions)
       /\ sessions = <<>>

\* C23: without a timeout the guard arms no alarm, installs no handler and
\* creates no task; with a timeout, once the call has returned the alarm is
\* cancelled, the original SIGALRM handler is back and the timer task is not
\* left running.
C23_GuardLeavesNothing ==
    /\ guard.seconds = <<>> =>
          guard.alarm = <<>> /\ guard.handler = "original" /\ guard.task = "none"
    /\ guard.pc = "done" =>
          guard.alarm = <<>> /\ guard.handler = "original" /\ guard.task # "armed"

\* The options of the declaration are ones the text calls invalid.
InvalidOptions ==
    \/ decl.retry_count < 0
    \/ decl.retry_backoff <= 0
    \/ decl.timeout # <<>> /\ decl.timeout[1] <= 0

\* C24: the declaration fails with an error exactly when retry_count < 0, or
\* retry_backoff <= 0, or timeout is given and <= 0; and no call of a wrapper
\* ever runs with such options.
C24_OptionsValidated ==
    /\ decl.pc \in {"declared", "failed"} =>
          /\ decl.pc = "failed" <=> InvalidOptions
          /\ decl.pc = "failed" <=> decl.err # "ok"
    /\ decl.calls > 0 => ~InvalidOptions

C24_Witness ==
    /\ decl.pc = "failed"
    /\ decl.retry_count >= 0 /\ decl.retry_backoff = 0 /\ decl.timeout = <<>>
    /\ decl.calls = 0

\* The manager call that returned last.
Done == mgr.last.call

\* C25: register_database on a taken name without override fails and leaves
\* the registry as it was; with override, or on a free name, it binds the
\* name to the database, and get_database(name) then returns that database.
C25_Register ==
    Done.op = "register" =>
        IF Done.name \in DOMAIN mgr.last.before /\ ~Done.override
        THEN /\ mgr.last.err = "ValueError"
             /\ mgr.databases = mgr.last.before
             /\ get_database(mgr.databases, Done.name).ret = mgr.last.before[Done.name]
        ELSE /\ mgr.last.err = "ok"
             /\ get_database(mgr.databases, Done.name).err = "ok"
             /\ get_database(mgr.databases, Done.name).ret = Done.db
             /\ \A n \in NameChoices \ {Done.name} :
                   /\ n \in DOMAIN mgr.databases <=> n \in DOMAIN mgr.last.before
                   /\ n \in DOMAIN mgr.databases => mgr.databases[n] = mgr.last.before[n]

C25_Witness ==
    /\ Done.op = "register" /\ ~Done.override
    /\ Done.name \in DOMAIN mgr.last.before
    /\ mgr.last.before[Done.name] # Done.db
    /\ mgr.last.err = "ValueError"

\* C27: unregister_database never fails; on a registered name it removes the
\* entry and returns the database that was registered; on a name that is not
\* registered it returns None and leaves the registry unchanged, so a second
\* call on the same name returns None.
C27_Unregister ==
    Done.op = "unregister" =>
        /\ mgr.last.err = "ok"
        /\ Done.name \notin DOMAIN mgr.databases
        /\ IF Done.name \in DOMAIN mgr.last.before
           THEN /\ mgr.last.ret = mgr.last.before[Done.name]
                /\ mgr.databases = RegPop(mgr.last.before, Done.name)
           ELSE /\ mgr.last.ret = None
                /\ mgr.databases = mgr.last.before
        /\ unregister_database(mgr.databases, Done.name) =
              [databases |-> mgr.databases, ret |-> None, err |-> "ok"]

C27_Witness ==
    /\ Done.op = "unregister"
    /\ Done.name \notin DOMAIN mgr.last.before
    /\ mgr.last.before # <<>>
    /\ mgr.last.ret = None /\ mgr.last.err = "ok"

\* Thread t is inside `with self._lock` with a get_database call.
Reading(t) == t \in mgr.inside /\ mgr.th[t].op.op = "get"

\* Thread t stands before `with self._lock` with a get_database call.
WantsToRead(t) == mgr.th[t].pc = "waiting" /\ mgr.th[t].op.op = "get"

\* C28 (as amended): on one TransactionManager every call, get_database
\* included, is mutually exclusive with every other call: at most one thread
\* is inside the locked section at any time.
C28_Exclusive == Cardinality(mgr.inside) <= 1

C28_Witness ==
    \E t, u \in Threads : t # u /\ Reading(t) /\ WantsToRead(u) /\ mgr.th[t].op = mgr.th[u].op

\* C28 (as stated): every mutation is exclusive with every other call, while
\* a get_database call may enter its read section when the threads inside
\* are all get_database calls.
C28_ReadersShare ==
    /\ \A t, u \in mgr.inside : t # u => Reading(t) /\ Reading(u)
    /\ \A t \in Threads :
          (WantsToRead(t) /\ \A u \in mgr.inside : Reading(u)) => ENABLED Acquire(t)

\* C26: get_database fails for a name that is not registered and leaves the
\* registry unchanged; through a wrapper the failure (KeyError) comes before
\* the retry loop: no attempt, no backoff, no session opened, nothing pushed,
\* the user function never invoked.
C26_UnregisteredFailsFirst ==
    (call.pc \notin {"none", "wrapper"} /\ call.dbname \notin DOMAIN call.before)
    => /\ call.pc = "done" /\ call.result = "raise"
       /\ call.exc = <<Exc("KeyError", 0, "get_database")>>
       /\ mgr.databases = call.before
       /\ call.attempts = 0 /\ call.waits = 0 /\ call.hist = <<>>
       /\ call.retry_remaining = call.retry_count
       /\ Len(db) = (IF call.outer THEN 1 ELSE 0)
       /\ \A i \in 1..Len(db) : db[i].log = <<>> /\ db[i].user = "running"
       /\ sessions = (IF call.outer THEN push(<<>>, 0, 1).sessions ELSE <<>>)
       /\ counter = (IF call.outer THEN 1 ELSE 0)
       /\ pending = {}

C26_Witness ==
    /\ call.pc = "done" /\ call.retry_count = MaxRetry /\ call.outer
    /\ call.before # <<>> /\ call.dbname \notin DOMAIN call.before
    /\ call.exc # <<>> /\ call.exc[1].cls = "KeyError"

\* The get_db / get_async_db context of session s has been left.
Left(s) == Count(db[s].log, "close") > 0

\* commit() was invoked on the session with this log and returned.
Committed(log) == \E i \in 1..Len(log) : log[i].op = "commit" /\ log[i].ok

\* commit() was invoked on the session with this log and raised.
CommitFailed(log) == \E i \in 1..Len(log) : log[i].op = "commit" /\ ~log[i].ok

\* C29: every session opened by get_db / get_async_db is terminated by
\* exactly one of commit() or rollback() (a commit that fails is followed by
\* the rollback), and close() is invoked exactly once, after it, on every
\* exit path: success, failure, failing commit, cancellation of the body.
C29_OneTerminationThenClose ==
    \A s \in 1..Len(db) :
        Left(s) =>
            LET log == db[s].log IN
            /\ Count(log, "commit") <= 1
            /\ \/ Committed(log) /\ Count(log, "rollback") = 0
               \/ ~Committed(log) /\ Count(log, "rollback") = 1
            /\ Count(log, "close") = 1
            /\ log[Len(log)].op = "close"

\* C30: when the body of get_db / get_async_db raised, or commit() did, the
\* caller of get_db observes DatabaseError, never the original class, and
\* the session was rolled back before.
C30_SurfacedAsDatabaseError ==
    (/\ last.uid # 0 /\ last.owns
     /\ Left(last.sess)
     /\ db[last.sess].user # "ok" \/ CommitFailed(db[last.sess].log))
    => /\ last.result = "DatabaseError"
       /\ \E i \in 1..Len(db[last.sess].log) :
             db[last.sess].log[i].op = "rollback" /\ db[last.sess].log[i].ok

\* C31: a Database starts uninitialized; the first access to the engine or
\* get_db initializes engine, factory and flag together; a dispose that
\* returns leaves all three uninitialized; a later get_db initializes again
\* with a new engine; and between operations the flag is set exactly when
\* the engine is present and exactly when the factory is present.
C31_Lifecycle ==
    dbase.pc # "none" =>
        /\ \A side \in Sides :
              /\ dbase[side].initialized <=> dbase[side].engine # None
              /\ dbase[side].initialized <=> dbase[side].factory # None
        /\ dbase.pc = "made" => dbase.sync = Uninitialized /\ dbase.async = Uninitialized
        /\ (dbase.op \in {"engine", "get_db"} /\ dbase.err = "ok") =>
              /\ dbase[dbase.side].initialized
              /\ dbase[dbase.side].engine \notin (dbase.disposed \cup {None})
              /\ dbase[dbase.side].factory = dbase[dbase.side].engine
        /\ (dbase.op = "dispose" /\ dbase.err = "ok") =>
              dbase[dbase.side] = Uninitialized

C31_Witness ==
    /\ dbase.op = "get_db" /\ dbase.side = "sync" /\ dbase.err = "ok"
    /\ dbase.disposed # {} /\ dbase.sync.initialized
    /\ \E e \in dbase.disposed : e < dbase.sync.engine

\* C32: a wrapped call declared with db=<Database instance> uses that
\* instance without it being registered under any name: the lookup of the
\* wrapper does not fail and the call goes on to its attempts.
C32_InstanceAccepted ==
    (call.pc \notin {"none", "wrapper"} /\ call.dbname = DatabaseObject)
    => /\ call.exc = <<>> \/ call.exc[1].src # "get_database"
       /\ call.pc = "done" => call.attempts >= 1

\* C33: one exclusive lock covers the id generation and the insertion of a
\* push together and every other operation on the map, so pushes insert in
\* the order they took their ids: the entries of the map are in increasing
\* id order.
C33_OneLock ==
    \A i, j \in 1..Len(sessions) : i < j => sessions[i].id < sessions[j].id

\* The pushes of the series tr that have not been removed, oldest first: a
\* pop removes the push whose id it was given, a clear removes all.
RECURSIVE LiveAfter(_)
LiveAfter(tr) ==
    IF tr = <<>> THEN <<>>
    ELSE LET e == tr[Len(tr)]
             before == LiveAfter(SubSeq(tr, 1, Len(tr) - 1))
         IN
         CASE e.op = "push" -> Append(before, e)
           [] e.op = "pop" -> SelectSeq(before, LAMBDA x : x.k # e.k)
           [] e.op = "clear" -> <<>>
           [] OTHER -> before

\* What step n of the series has to return.
Expected(n) ==
    LET e == trace[n]
        live == LiveAfter(SubSeq(trace, 1, n - 1))
        mine == SelectSeq(live, LAMBDA x : x.k = e.k)
    IN
    CASE e.op = "current" -> IF live = <<>> THEN None ELSE live[Len(live)].sess
      [] e.op = "pop" -> IF mine = <<>> THEN None ELSE mine[1].sess
      [] OTHER -> e.ret

\* C34: in any sequential series of SessionStack operations get_current
\* returns the session of the most recent push not yet popped (none when
\* there is none); pop(id) returns the session of the push that returned id
\* and removes only that entry, the others keeping their order; pop of an id
\* whose entry was already removed, or that no push returned, returns none
\* and changes nothing.
C34_Sequential ==
    /\ \A n \in 1..Len(trace) : trace[n].ret = Expected(n)
    /\ sessions = [i \in 1..Len(LiveAfter(trace)) |->
                     [id |-> LiveAfter(trace)[i].id, sess |-> LiveAfter(trace)[i].sess]]

\* The same for a series that never calls clear.
C34_WithoutClear == (\A n \in 1..Len(trace) : trace[n].op # "clear") => C34_Sequential

\* The attempts of the retried call so far have all been cleaned up: no
\* generator of an attempt is still suspended and the stack is as the call
\* found it.
CleanedUp ==
    /\ pending = {}
    /\ Len(sessions) = (IF call.outer THEN 1 ELSE 0)

\* C35: exactly one wait happens between two consecutive attempts and none
\* after the last one, so a call that made a attempts performed a - 1 waits;
\* and each wait follows the cleanup of the failed attempt and precedes the
\* stack read of the next attempt.
C35_WaitsBetweenAttempts ==
    call.pc \notin {"none", "wrapper"} =>
        /\ call.pc = "loop" => call.waits = call.attempts
        /\ call.pc \in {"user", "sleep"} => call.waits = call.attempts - 1
        /\ (call.pc = "done" /\ call.attempts >= 1) => call.waits = call.attempts - 1
        /\ call.pc = "sleep" => CleanedUp
        /\ (call.pc = "loop" /\ call.retry_remaining >= 0) => CleanedUp

\* The counting part of C35 alone.
C35_WaitCount ==
    call.pc \notin {"none", "wrapper"} =>
        /\ call.pc = "loop" => call.waits = call.attempts
        /\ call.pc \in {"user", "sleep"} => call.waits = call.attempts - 1
        /\ (call.pc = "done" /\ call.attempts >= 1) => call.waits = call.attempts - 1

\* A deadline can be started for the retried call: a timeout is configured
\* and, in SYNC mode, the call is made in the main thread.
Armable == call.seconds # <<>> /\ (call.mode = "ASYNC" \/ call.main)

OuterDeadline == (guard.outer_s[1] \div Tenths) * Tenths

\* C37: in SYNC mode, after a nested call with its own timeout has returned,
\* the deadline of the enclosing call is still pending, and an enclosing
\* operation that overruns its timeout is interrupted with a timeout
\* failure.
C37_OuterDeadlineKept ==
    guard.inner_s # <<>> =>
        /\ guard.pc = "second" => guard.alarm = <<OuterDeadline>>
        /\ (guard.pc = "done" /\ guard.result = "ok") => guard.now <= OuterDeadline

\* The same when the nested call has no timeout of its own.
C37_WithoutInnerTimeout ==
    guard.inner_s = <<>> =>
        /\ guard.pc = "second" => guard.alarm = <<OuterDeadline>>
        /\ (guard.pc = "done" /\ guard.result = "ok") => guard.now <= OuterDeadline

\* The innermost call created its session and is about to run, or has run,
\* the commit or rollback of get_db.
Terminating ==
    /\ frames # <<>>
    /\ Top.owns
    /\ \/ NextStep = "terminate"
       \/ \E i \in 1..Len(trace) : trace[i].name = "terminate"

\* C38: in SYNC mode a frame that created its session has its stack entry
\* popped before commit() or rollback() is invoked: when the commit or
\* rollback runs, and after it returned or raised, the session is not on
\* the stack under the frame's id, and a call that ended with a failed
\* commit or rollback has left no entry behind.
C38_PoppedBeforeCommit ==
    /\ Terminating => Top.sid \notin Ids(sessions)
    /\ (last.owns /\ last.result \in {"DatabaseError", "SQLAlchemyError"})
          => last.sid \notin Ids(sessions)

\* C38 witness: a commit or rollback of the creating frame has raised, and
\* the entry of the frame is gone from the stack.
C38_Witness ==
    /\ frames # <<>>
    /\ Top.owns
    /\ Top.sid \notin Ids(sessions)
    /\ \E i \in 1..Len(trace) :
         /\ trace[i].name = "terminate"
         /\ trace[i].err \in {"DatabaseError", "SQLAlchemyError"}
         /\ \E j \in 1..(i - 1) : trace[j].name = "pop"

\* C39: current_session_stack is set only by the outermost handler of a
\* call chain, the one that found it unset, and is unset again when that
\* outermost SYNC call has exited, on success and on failure alike; nested
\* handlers find it set and never reset it; before and after every
\* top-level call the variable is unset.
C39_ContextVariable ==
    /\ frames = <<>> => ~ctx
    /\ frames # <<>> => ctx
    /\ \A i \in 1..Len(frames) : frames[i].token <=> (i = 1)
    /\ (frames # <<>> /\ last # NoCall) => ~last.token

\* C39 witness: a top-level SYNC call inside which another wrapped call
\* ran has exited with a failure, and the variable is unset.
C39_Witness ==
    /\ frames = <<>>
    /\ ~ctx
    /\ last.token
    /\ last.calls = 1
    /\ last.result # "ok"
    /\ ncalls > last.uid

\* The propagation types declared in PropagationType that the handler table
\* does not serve.
Unimplemented == {"NESTED", "NOT_SUPPORTED"}

C40_WitnessTop ==
    /\ last # NoCall
    /\ last.prop = "NOT_SUPPORTED"
    /\ last.result = "KeyError"
    /\ last.token
    /\ ~ctx

====
